---------------------------- MODULE Spec2Model ----------------------------
(***************************************************************************)
(* Verification model of the ionisation engine of HydroCodeSpherical1D     *)
(* (src/Bondi.hpp, Bank.hpp).                                              *)
(*                                                                         *)
(* The program computes with IEEE doubles.  The model computes with exact  *)
(* rationals <<n, d>> (d > 0, lowest terms), extended with the IEEE        *)
(* special values +inf = <<1,0>>, -inf = <<-1,0>> and NaN = <<0,0>>, so    *)
(* that a division by zero gives what the build gives.  The geometry of    *)
(* the shells, the absorption weights, the self-consistent radius solver   *)
(* and the neutral fraction of the jump transition are computed with       *)
(* rounding to MantBits bits; the packet transport, UPDATE_ION, the smooth *)
(* transition, the pressure and the boundary gradients are computed        *)
(* exactly.                                                                *)
(*                                                                         *)
(* Specifications:                                                         *)
(*   Spec     the Monte Carlo transfer mode, one action per loop header,   *)
(*            ICT / PROPAGATE call and end-of-step pass                    *)
(*   SpecIon  one call of UPDATE_ION from any admissible cell state        *)
(*   SpecSC   the self-consistent mode: the passes of do_ionisation,       *)
(*            step after step, on density fields the hydro scheme leaves   *)
(*   SpecLog  the log block of get_ionisation_radius on radii that lie     *)
(*            within and beyond its tolerance of each other                *)
(*   SpecProfile  the constant radius mode on the grid of ncell shells,    *)
(*            for radii and transition widths around the shell walls       *)
(*   SpecConst  the constant radius mode on the grid of ten shells with    *)
(*            the radius at the outer wall of the fifth, the conversion to *)
(*            primitive variables and the boundary conditions              *)
(*   SpecDecay  repeated calls of UPDATE_ION on a cell without photons     *)
(*   SpecEmit  the Monte Carlo mode with the optical depth of an emitted   *)
(*            packet sampled from every value of rand()                    *)
(*   SpecLong  the Monte Carlo transfer mode over LongSteps steps          *)
(*   SpecPar  the omp parallel loops, their iterations interleaved         *)
(*   SpecScan  the scan for the radius at the end of a Monte Carlo step,   *)
(*            on the neutral fractions UPDATE_ION can leave                *)
(***************************************************************************)
EXTENDS Integers, Sequences, FiniteSets, TLC

(***************************************************************************)
(* Extended rational arithmetic (the model of double)                      *)
(***************************************************************************)
IAbs(i) == IF i < 0 THEN -i ELSE i

RECURSIVE GCD(_, _)
GCD(a, b) == IF b = 0 THEN a ELSE GCD(b, a % b)

Norm(n, d) ==
  IF d = 0
    THEN (IF n > 0 THEN <<1, 0>> ELSE IF n < 0 THEN <<-1, 0>> ELSE <<0, 0>>)
    ELSE LET g == GCD(IAbs(n), IAbs(d))
             s == IF d < 0 THEN -1 ELSE 1
         IN  <<(s * n) \div g, (s * d) \div g>>

NaN  == <<0, 0>>
PInf == <<1, 0>>
NInf == <<-1, 0>>
Zero == <<0, 1>>
One  == <<1, 1>>
Half == <<1, 2>>
Int2R(i) == <<i, 1>>

IsNaN(a) == a = NaN
IsInf(a) == a[2] = 0 /\ a[1] # 0
IsFinite(a) == a[2] # 0

RNeg(a) == <<-a[1], a[2]>>

RAdd(a, b) ==
  IF a[2] = 0 /\ b[2] = 0
    THEN (IF a = b THEN a ELSE NaN)
    ELSE IF a[2] = 0 THEN a
    ELSE IF b[2] = 0 THEN b
    ELSE LET g == GCD(a[2], b[2])
         IN  Norm(a[1] * (b[2] \div g) + b[1] * (a[2] \div g),
                  (a[2] \div g) * b[2])

RSub(a, b) == RAdd(a, RNeg(b))

RMul(a, b) ==
  IF a[2] = 0 \/ b[2] = 0
    THEN Norm(a[1] * b[1], 0)
    ELSE LET g1 == GCD(IAbs(a[1]), b[2])
             g2 == GCD(IAbs(b[1]), a[2])
         IN  Norm((a[1] \div g1) * (b[1] \div g2),
                  (a[2] \div g2) * (b[2] \div g1))

\* 1/a, with 1/0 = +inf and 1/inf = 0 as for doubles (no negative zero)
RInv(a) == Norm(a[2], a[1])

RDiv(a, b) == RMul(a, RInv(b))

\* n1/d1 < n2/d2 for positive d1, d2, by the integer parts and then the
\* reciprocals of the fractional parts, so that no product is formed
RECURSIVE FracLt(_, _, _, _)
FracLt(n1, d1, n2, d2) ==
  LET q1 == n1 \div d1
      q2 == n2 \div d2
      r1 == n1 % d1
      r2 == n2 % d2
  IN  IF q1 # q2 THEN q1 < q2
      ELSE IF r2 = 0 THEN FALSE
      ELSE IF r1 = 0 THEN TRUE
      ELSE FracLt(d2, r2, d1, r1)

\* the comparisons of doubles: every comparison with NaN is false
RLt(a, b) ==
  IF IsNaN(a) \/ IsNaN(b) THEN FALSE
  ELSE IF a[2] = 0 /\ b[2] = 0 THEN a[1] < b[1]
  ELSE IF a[2] = 0 THEN a[1] < 0
  ELSE IF b[2] = 0 THEN b[1] > 0
  ELSE FracLt(a[1], a[2], b[1], b[2])

REq(a, b) == ~IsNaN(a) /\ ~IsNaN(b) /\ a = b
RLe(a, b) == RLt(a, b) \/ REq(a, b)
RGt(a, b) == RLt(b, a)
RGe(a, b) == RLe(b, a)
RNe(a, b) == ~REq(a, b)

RAbs(a) == <<IAbs(a[1]), a[2]>>
RMin(a, b) == IF RLt(b, a) THEN b ELSE a
RCube(a) == RMul(a, RMul(a, a))

(***************************************************************************)
(* Rounding.  The ionisation radius solver is modelled with the results of *)
(* its operations rounded to nearest, ties to even, as the operations on   *)
(* doubles are, in a format with MantBits significant bits and no limit on *)
(* the exponent.                                                           *)
(***************************************************************************)
\* width of the significand (53 for a double)
MantBits == 3

RECURSIVE Pow2(_)
Pow2(n) == IF n = 0 THEN 1 ELSE 2 * Pow2(n - 1)

\* n/d > 0 rounded to MantBits significant bits, as <<numerator, denominator>>
RECURSIVE FlRound(_, _)
FlRound(n, d) ==
  IF n < Pow2(MantBits - 1) * d
    THEN LET r == FlRound(2 * n, d) IN <<r[1], 2 * r[2]>>
  ELSE IF n >= Pow2(MantBits) * d
    THEN LET r == FlRound(n, 2 * d) IN <<2 * r[1], r[2]>>
  ELSE LET q == n \div d
           r2 == 2 * (n % d)
       IN  <<IF r2 > d \/ (r2 = d /\ q % 2 = 1) THEN q + 1 ELSE q, 1>>

Fl(a) ==
  IF a[2] = 0 \/ a[1] = 0 THEN a
  ELSE LET r == FlRound(IAbs(a[1]), a[2])
       IN  Norm((IF a[1] < 0 THEN -1 ELSE 1) * r[1], r[2])

FAdd(a, b) == Fl(RAdd(a, b))
FSub(a, b) == Fl(RSub(a, b))
FMul(a, b) == Fl(RMul(a, b))
FDiv(a, b) == Fl(RDiv(a, b))
\* r * r * r
FCube(r) == FMul(FMul(r, r), r)

\* the values std::cbrt can return here: significands of MantBits bits in
\* the binades from 2^-CbrtExp up to 2^CbrtExp
CbrtExp == 3
CbrtVals ==
  {Norm(m * Pow2(e + CbrtExp), Pow2(MantBits - 1 + CbrtExp)) :
     m \in Pow2(MantBits - 1)..(Pow2(MantBits) - 1),
     e \in (-CbrtExp)..CbrtExp}

\* the significand of the double n/d > 0, as an integer of MantBits bits
RECURSIVE Significand(_, _)
Significand(n, d) ==
  IF n < Pow2(MantBits - 1) * d THEN Significand(2 * n, d)
  ELSE IF n >= Pow2(MantBits) * d THEN Significand(n, 2 * d)
  ELSE n \div d

\* the distance from the double f > 0 to the next double above
Ulp(f) == RDiv(f, Int2R(Significand(f[1], f[2])))

\* half the distance from f to the next value below and above
HalfGapBelow(f) ==
  IF Significand(f[1], f[2]) = Pow2(MantBits - 1)
    THEN RDiv(Ulp(f), Int2R(4))
    ELSE RDiv(Ulp(f), Int2R(2))
HalfGapAbove(f) == RDiv(Ulp(f), Int2R(2))

\* std::cbrt of x > 0, correctly rounded: the value whose rounding interval
\* holds the cube root
Cbrt(x) ==
  CHOOSE f \in CbrtVals :
    /\ RLe(RCube(RSub(f, HalfGapBelow(f))), x)
    /\ RLt(x, RCube(RAdd(f, HalfGapAbove(f))))


(***************************************************************************)
(* Configuration.  The grid is uniform; internal units equal SI units      *)
(* (UNIT_LENGTH_IN_SI = UNIT_TIME_IN_SI = UNIT_DENSITY_IN_SI /             *)
(* HYDROGEN_MASS_IN_SI = SPEED_OF_LIGHT_IN_SI = 1), so that lrem = dt.     *)
(***************************************************************************)
\* number of active shells (cells 1..ncell; 0 and ncell+1 are ghost cells)
ncell == 3
\* packets emitted per step (1000 in the source, scaled down)
nphoton == 2
\* bank capacity (10000000 in the source, scaled down); the same number is
\* the literal in the guards of ICT and PROPAGATE
sizebank == 2
\* number of time steps the model runs
MaxSteps == 2

Cells == 0..(ncell + 1)
Active == 1..ncell
Slots == 0..sizebank

\* shell thickness cells[k]._V * UNIT_LENGTH_IN_SI
CELLSIZE == <<2, 1>>
\* the inner radius RMIN of the grid: 0 in the Monte Carlo runs, 0 or 8
\* in the runs of the self-consistent solver
RMinVals == {Zero, <<8, 1>>}
\* the densities the cells take in the runs of the self-consistent solver
RhoVals == {One, <<3, 2>>}
\* cells[k]._sigma and cells[k]._alphaB, the same in every cell
Sigma == <<1, 1>>
AlphaB == <<1, 1>>
\* Qion / (4/3 pi): the source's Qion = 1.E47 with the sphere factor folded in
QionF == <<2, 1>>
\* the floor of the neutral fraction in UPDATE_ION (1.0E-8 in the source;
\* 1/100 here, which keeps every numerator within TLC's 32-bit integers)
NfacFloor == <<1, 100>>
\* relative tolerance of the radius log
LogTol == <<1, 10000>>

\* the values rand() yields for -log(rand()/RAND_MAX)
TauVals == {<<1, 2>>, <<5, 1>>}
\* the values of SPEED_OF_LIGHT_IN_SI * dt * UNIT_TIME_IN_SI the solver supplies
LremVals == {<<1, 1>>, <<9, 1>>}
\* values of the ionised fraction the general branch of UPDATE_ION is
\* sampled at
IfracGrid == {<<1, 4>>, <<3, 4>>}

\* the square of the isothermal sound speed, in internal units
ISOTHERMAL_C_SQUARED == <<2, 1>>
\* HALF_CELLSIZE
HALF_CELLSIZE == RMul(Half, CELLSIZE)

\* the constants of a run: INITIAL_IONISATION_RADIUS (configuration),
\* transition_width and bondi_pressure_contrast (command line), and the
\* analytic boundary values that boundary_conditions_initialize computes;
\* here a run without a transition region, without pressure contrast and
\* with a boundary at rest
DefaultConsts ==
  [initial_ionisation_radius |-> Zero,
   transition_width |-> Zero, bondi_pressure_contrast |-> One,
   bondi_density_high |-> One, bondi_velocity_high |-> Zero,
   bondi_pressure_high |-> ISOTHERMAL_C_SQUARED, bondi_density_max |-> One,
   bondi_velocity_max |-> Zero, bondi_pressure_max |-> ISOTHERMAL_C_SQUARED]

\* no parallel loop is under way.  Of a loop under way, todo holds the
\* iterations that have not started and val the entry each iteration that
\* has read its operands is about to store.
ParIdle == [loop |-> "none", todo |-> {}, val |-> <<>>]

VARIABLES
  pc,            \* position in the step
  step,          \* current_integer_time, in steps
  cells,         \* the cell array
  P_Store,       \* the bank array
  nbanki, nbank, \* entries to resume / entries stored this step
  j,             \* index of the packet loops
  taurem, cell, rcurrent, lrem,   \* the packet being propagated
  dt0, dt1,      \* cells[0]._dt and cells[1]._dt of this step
  rion, rion_old, bondi_rfile,    \* radius, last logged radius, log file
  const_bondi_Q, \* photon budget set by ionisation_initialize
  transition,    \* IONISATION_TRANSITION
  hist,          \* history (not program state): what the claims speak about
  consts,        \* the const doubles set before the first step
  par            \* the omp parallel loop under way: its iterations

vars == <<pc, step, cells, P_Store, nbanki, nbank, j, taurem, cell, rcurrent,
          lrem, dt0, dt1, rion, rion_old, bondi_rfile, const_bondi_Q,
          transition, hist, consts, par>>

(***************************************************************************)
(* Cells                                                                   *)
(***************************************************************************)
\* number density cells[k]._rho * (UNIT_DENSITY_IN_SI / HYDROGEN_MASS_IN_SI)
NH(c) == c.rho
\* opacity per unit length: rho * (UD/mH) * nfac_MC * sigma
Kappa(c) == RMul(RMul(NH(c), c.nfac_MC), Sigma)

NeutralCell == [rho |-> One, nfac |-> Zero, nfac_MC |-> One, ifrac |-> Zero,
                ft0 |-> Zero, jmean |-> Zero, last_jmean |-> Zero,
                length |-> Zero, lowlim |-> Zero, uplim |-> Zero,
                u |-> Zero, P |-> Zero,
                grad_rho |-> Zero, grad_u |-> Zero, grad_P |-> Zero]
IonisedCell == [NeutralCell EXCEPT !.nfac_MC = Zero, !.ifrac = One,
                                   !.ft0 = One]

\* what a read beyond the end of the cell array may return
GarbageCells == {NeutralCell, IonisedCell}

\* cell k of a grid that starts at rmin0: _lowlim and _uplim are doubles
InShell(c, rmin0, k) ==
  [c EXCEPT !.lowlim = Fl(RAdd(rmin0, RMul(Int2R(k - 1), CELLSIZE))),
            !.uplim = Fl(RAdd(rmin0, RMul(Int2R(k), CELLSIZE)))]

(***************************************************************************)
(* The bank                                                                *)
(***************************************************************************)
EmptyEntry == [_currentCell |-> 0, _currentTaurem |-> Zero,
               _currentDistance |-> Zero, _futureCell |-> 0,
               _futureTaurem |-> Zero, _futureDistance |-> Zero,
               _currentnbank |-> 0]

\* a BANK that writes the packet and leaves the index where it was
BANK_same_slot(ps, cl, tr, radius, stored) ==
  [P_Store |-> [ps EXCEPT ![stored] = [@ EXCEPT !._futureCell = cl,
                                                 !._futureDistance = radius,
                                                 !._futureTaurem = tr]],
   stored |-> stored]

\* BANK: write the packet to slot `stored` and count it
BANK(ps, cl, tr, radius, stored) ==
  [P_Store |-> [ps EXCEPT ![stored] = [@ EXCEPT !._futureCell = cl,
                                                 !._futureDistance = radius,
                                                 !._futureTaurem = tr]],
   stored |-> stored + 1]

\* the literal 10000000 in `if (stored<=10000000)`
BankGuard(stored) == stored <= sizebank

\* the else branch of ICT and PROPAGATE when the light-travel budget runs out
StoreOrCount(ps, cl, tr, radius, stored) ==
  IF BankGuard(stored) THEN BANK(ps, cl, tr, radius, stored)
  ELSE [P_Store |-> ps, stored |-> stored + 1]

(***************************************************************************)
(* ICT and PROPAGATE.  c is the cell record read at index cl; the result   *)
(* holds the new values of the reference parameters and the record to      *)
(* write back at index cl.                                                 *)
(***************************************************************************)
\* a banking that leaves taurem as it was
BankedTauremKept(c, tr, lr) == tr

\* taurem -= rho*(UD/mH)*nfac_MC*sigma*lrem, when the packet is banked
BankedTaurem(c, tr, lr) == RSub(tr, RMul(Kappa(c), lr))

\* an ICT that adds the whole thickness of the cell when the packet leaves it
ICT_whole_cell(c, ps, cl, tr, rc, lr, stored) ==
  LET rem == RSub(CELLSIZE, rc)
      taucell == RMul(RMul(RMul(Sigma, rem), NH(c)), c.nfac_MC)
  IN
  IF RGt(tr, taucell) /\ RGt(lr, rem)
    THEN [c |-> [c EXCEPT !.length = RAdd(@, CELLSIZE)],
          P_Store |-> ps, cell |-> cl + 1, taurem |-> RSub(tr, taucell),
          rcurrent |-> Zero, lrem |-> RSub(lr, rem), stored |-> stored,
          what |-> "cross", dtau |-> taucell, dlen |-> CELLSIZE]
    ELSE LET taulength == RDiv(tr, Kappa(c)) IN
      IF RLe(taulength, lr)
        THEN [c |-> [c EXCEPT !.length = RAdd(@, taulength)],
              P_Store |-> ps, cell |-> cl, taurem |-> Zero,
              rcurrent |-> rc, lrem |-> lr, stored |-> stored,
              what |-> "absorb", dtau |-> tr, dlen |-> taulength]
        ELSE LET tr2 == BankedTaurem(c, tr, lr)
                 rc2 == RAdd(rc, lr)
                 b == StoreOrCount(ps, cl, tr2, rc2, stored)
             IN [c |-> [c EXCEPT !.length = RAdd(@, lr)],
                 P_Store |-> b.P_Store, cell |-> cl, taurem |-> tr2,
                 rcurrent |-> rc2, lrem |-> Zero, stored |-> b.stored,
                 what |-> "bank", dtau |-> RMul(Kappa(c), lr), dlen |-> lr]

ICT(c, ps, cl, tr, rc, lr, stored) ==
  LET rem == RSub(CELLSIZE, rc)
      taucell == RMul(RMul(RMul(Sigma, rem), NH(c)), c.nfac_MC)
  IN
  IF RGt(tr, taucell) /\ RGt(lr, rem)
    THEN [c |-> [c EXCEPT !.length = RAdd(@, rem)],
          P_Store |-> ps, cell |-> cl + 1, taurem |-> RSub(tr, taucell),
          rcurrent |-> Zero, lrem |-> RSub(lr, rem), stored |-> stored,
          what |-> "cross", dtau |-> taucell, dlen |-> rem]
    ELSE LET taulength == RDiv(tr, Kappa(c)) IN
      IF RLe(taulength, lr)
        THEN [c |-> [c EXCEPT !.length = RAdd(@, taulength)],
              P_Store |-> ps, cell |-> cl, taurem |-> Zero,
              rcurrent |-> rc, lrem |-> lr, stored |-> stored,
              what |-> "absorb", dtau |-> tr, dlen |-> taulength]
        ELSE LET tr2 == BankedTaurem(c, tr, lr)
                 rc2 == RAdd(rc, lr)
                 b == StoreOrCount(ps, cl, tr2, rc2, stored)
             IN [c |-> [c EXCEPT !.length = RAdd(@, lr)],
                 P_Store |-> b.P_Store, cell |-> cl, taurem |-> tr2,
                 rcurrent |-> rc2, lrem |-> Zero, stored |-> b.stored,
                 what |-> "bank", dtau |-> RMul(Kappa(c), lr), dlen |-> lr]

PROPAGATE(c, ps, cl, tr, lr, stored) ==
  LET taucell == RMul(RMul(RMul(Sigma, CELLSIZE), NH(c)), c.nfac_MC)
  IN
  IF RGt(tr, taucell) /\ RGt(lr, CELLSIZE)
    THEN [c |-> [c EXCEPT !.length = RAdd(@, CELLSIZE)],
          P_Store |-> ps, cell |-> cl + 1, taurem |-> RSub(tr, taucell),
          lrem |-> RSub(lr, CELLSIZE), stored |-> stored,
          what |-> "cross", dtau |-> taucell, dlen |-> CELLSIZE]
    ELSE LET taulength == RDiv(tr, Kappa(c)) IN
      IF RLe(taulength, lr)
        THEN [c |-> [c EXCEPT !.length = RAdd(@, taulength)],
              P_Store |-> ps, cell |-> cl, taurem |-> Zero,
              lrem |-> lr, stored |-> stored,
              what |-> "absorb", dtau |-> tr, dlen |-> taulength]
        ELSE LET tr2 == BankedTaurem(c, tr, lr)
                 b == StoreOrCount(ps, cl, tr2, lr, stored)
             IN [c |-> [c EXCEPT !.length = RAdd(@, lr)],
                 P_Store |-> b.P_Store, cell |-> cl, taurem |-> tr2,
                 lrem |-> Zero, stored |-> b.stored,
                 what |-> "bank", dtau |-> RMul(Kappa(c), lr), dlen |-> lr]


(***************************************************************************)
(* UPDATE_ION.  gen is the value the general branch assigns to ifrac       *)
(* (Riccati below, which needs a square root and a hyperbolic tangent).    *)
(***************************************************************************)
ConBOf(c) == RMul(AlphaB, NH(c))
IoROf(c) == RDiv(c.jmean, ConBOf(c))

\* the closed form of the general branch, given root = sqrt(IoR*(IoR+4.))
\* and th = tanh(0.5*ConB*root*delta)
Riccati(ft0, IoR, root, th) ==
  LET arg == RDiv(RAdd(RMul(Int2R(2), ft0), IoR), root)
  IN  RSub(RMul(RMul(Half, root),
                RDiv(RAdd(arg, th), RAdd(One, RMul(arg, th)))),
           RMul(Half, IoR))

\* an integrator whose recombination branch leaves ft0 as it was
UPDATE_ION_stale_ft0(c, delta, gen) ==
  IF REq(c.nfac_MC, One)
    THEN LET i1 == RAdd(c.ft0, RMul(c.jmean, delta)) IN
         IF RGt(i1, One)
           THEN [c EXCEPT !.nfac_MC = NfacFloor,
                          !.ifrac = RSub(One, NfacFloor),
                          !.ft0 = RSub(One, NfacFloor)]
           ELSE [c EXCEPT !.ifrac = i1, !.nfac_MC = RSub(One, i1),
                          !.ft0 = i1]
  ELSE IF REq(c.jmean, Zero) \/ REq(c.nfac_MC, Zero)
    THEN LET i2 == RInv(RAdd(RInv(c.ft0), RMul(ConBOf(c), delta))) IN
         [c EXCEPT !.ifrac = i2, !.nfac_MC = RSub(One, i2)]
  ELSE [c EXCEPT !.ifrac = gen, !.nfac_MC = RSub(One, gen), !.ft0 = gen]

UPDATE_ION(c, delta, gen) ==
  IF REq(c.nfac_MC, One)
    THEN LET i1 == RAdd(c.ft0, RMul(c.jmean, delta)) IN
         IF RGt(i1, One)
           THEN [c EXCEPT !.nfac_MC = NfacFloor,
                          !.ifrac = RSub(One, NfacFloor),
                          !.ft0 = RSub(One, NfacFloor)]
           ELSE [c EXCEPT !.ifrac = i1, !.nfac_MC = RSub(One, i1),
                          !.ft0 = i1]
  ELSE IF REq(c.jmean, Zero) \/ REq(c.nfac_MC, Zero)
    THEN LET i2 == RInv(RAdd(RInv(c.ft0), RMul(ConBOf(c), delta))) IN
         [c EXCEPT !.ifrac = i2, !.nfac_MC = RSub(One, i2), !.ft0 = i2]
  ELSE [c EXCEPT !.ifrac = gen, !.nfac_MC = RSub(One, gen), !.ft0 = gen]

\* v lies below the equilibrium (sqrt(IoR*(IoR+4)) - IoR)/2 of the general
\* branch, the root in (0,1) of x^2 = IoR*(1-x), for v in [0,1]
BelowEq(v, IoR) == RLt(RDiv(RMul(v, v), RSub(One, v)), IoR)
AboveEq(v, IoR) == RGt(RDiv(RMul(v, v), RSub(One, v)), IoR)

\* The values of the general branch in the Monte Carlo steps, where IoR is
\* whatever the path lengths make it and the square root is irrational:
\* the closed form moves ifrac from ft0 (delta = 0) monotonically towards
\* the equilibrium (delta -> infinity), so every grid value strictly between
\* the two is the result for some delta; ft0 itself stands for a change
\* below the grid's resolution.  With IoR not finite (ConB = 0) the closed
\* form is NaN.
GeneralValues(c, delta) ==
  LET IoR == IoROf(c)
      B == {v \in IfracGrid :
              \/ RLt(c.ft0, v) /\ BelowEq(v, IoR)
              \/ RGt(c.ft0, v) /\ AboveEq(v, IoR)}
  IN  IF ~IsFinite(IoR) THEN {NaN}
      ELSE IF REq(delta, Zero) \/ B = {} THEN {c.ft0}
      ELSE B

\* cells[k]._V^3 for the innermost sphere, else uplim^3 - lowlim^3
\* (vcell without its factor 4/3 pi)
Vol3(c) ==
  IF REq(c.lowlim, Zero) THEN RCube(CELLSIZE)
  ELSE RSub(RCube(c.uplim), RCube(c.lowlim))

\* jmean = Qion*sigma*length / (nphoton*vcell)
MeanIntensityOf(c) ==
  RDiv(RMul(RMul(QionF, Sigma), c.length), RMul(Int2R(nphoton), Vol3(c)))

(***************************************************************************)
(* Radius, log and neutral fraction                                        *)
(***************************************************************************)
\* the scan `for k=1..ncell+1: if nfac_MC>=0.5 {rion=lowlim; break; ...}`
\* (the statement after the break is never executed)
RECURSIVE ScanRion(_, _, _)
ScanRion(cs, k, r0) ==
  IF k >= ncell + 2 THEN r0
  ELSE IF RGe(cs[k].nfac_MC, Half) THEN cs[k].lowlim
  ELSE ScanRion(cs, k + 1, r0)

\* a condition that also holds at the tolerance itself
LogNeededAtLeast(r, rold) ==
  RGe(RAbs(RSub(r, rold)), RMul(LogTol, RAbs(RAdd(r, rold))))

\* |rion - rion_old| > 1.e-4 * |rion + rion_old|
LogNeeded(r, rold) ==
  RGt(RAbs(RSub(r, rold)), RMul(LogTol, RAbs(RAdd(r, rold))))

\* the block that writes (curtime, ionrad, Cion) and sets rion_old
LogWrite(file, rold, t, r, Cion) ==
  IF LogNeeded(r, rold)
    THEN [file |-> Append(file, <<t, r, Cion>>), rion_old |-> r]
    ELSE [file |-> file, rion_old |-> rold]

\* a neutral fraction that blends linearly in radius
LinearFraction(rmin, rmax, r) ==
  IF RLt(rmax, r) THEN Zero
  ELSE IF RLt(rmin, r) THEN FDiv(FSub(rmax, r), FSub(rmax, rmin))
  ELSE One

\* a neutral fraction that is not divided by the volume of the shell
NeutralVolume(rmin, rmax, r) ==
  IF RLt(rmax, r) THEN Zero
  ELSE IF RLt(rmin, r) THEN FSub(FCube(rmax), FCube(r))
  ELSE One

\* get_neutral_fraction, IONISATION_TRANSITION_JUMP
get_neutral_fraction(rmin, rmax, r) ==
  IF RLt(rmax, r) THEN Zero
  ELSE IF RLt(rmin, r)
    THEN FDiv(FSub(FCube(rmax), FCube(r)), FSub(FCube(rmax), FCube(rmin)))
  ELSE One

\* bondi_S and bondi_A of ionisation_initialize, for transition_width W
bondi_S(W) ==
  IF RGt(W, Zero) THEN RDiv(Int2R(3), RMul(Int2R(2), W)) ELSE Zero
bondi_A(S) == RDiv(RMul(RMul(RMul(Int2R(-16), S), S), S), Int2R(27))

\* The smooth transition is computed without rounding: the polynomial of
\* degree six below cancels to a few units out of thousands, which a
\* significand of MantBits bits cannot hold.
neutral_fraction_integral_function(A, S, ri, r) ==
  LET r2 == RMul(r, r)
      r3 == RMul(r, r2)
      rion2 == RMul(ri, ri)
      rion3 == RMul(ri, rion2)
      t1 == RMul(RMul(Int2R(10), r3), A)
      t2 == RMul(RMul(RMul(Int2R(36), r2), A), ri)
      t3 == RMul(RMul(RMul(Int2R(45), r), A), rion2)
      t4 == RMul(RMul(Int2R(15), r), S)
      t5 == RMul(RMul(Int2R(20), A), rion3)
      t6 == RMul(RMul(Int2R(20), ri), S)
  IN  RMul(r3, RAdd(RSub(RSub(RAdd(RAdd(RSub(t1, t2), t3), t4), t5), t6),
                    Int2R(10)))

get_neutral_fraction_integral(A, S, ri, rmin, rmax) ==
  RDiv(RSub(neutral_fraction_integral_function(A, S, ri, rmax),
            neutral_fraction_integral_function(A, S, ri, rmin)),
       Int2R(20))

\* rmax * rmax * rmax - rmin * rmin * rmin
CubeDiff(rmin, rmax) == RSub(RCube(rmax), RCube(rmin))

\* a smooth transition whose integral over the shell at the lower edge of
\* the transition starts at the wall of the shell
get_neutral_fraction_from_wall(rmin, rmax, ri, rion_min, rion_max, S, A) ==
  IF RLt(rmax, rion_min) THEN Zero
  ELSE IF RLt(rmin, rion_min) /\ RGe(rmax, rion_min)
    THEN RDiv(get_neutral_fraction_integral(A, S, ri, rmin, rmax),
              CubeDiff(rmin, rmax))
  ELSE IF RGe(rmin, rion_min) /\ RLe(rmax, rion_max)
    THEN RDiv(get_neutral_fraction_integral(A, S, ri, rmin, rmax),
              CubeDiff(rmin, rmax))
  ELSE IF RLt(rmin, rion_max) /\ RGt(rmax, rion_max)
    THEN RDiv(RAdd(get_neutral_fraction_integral(A, S, ri, rmin, rion_max),
                   CubeDiff(rion_max, rmax)),
              CubeDiff(rmin, rmax))
  ELSE One

\* get_neutral_fraction, IONISATION_TRANSITION_SMOOTH (ri is rion)
get_neutral_fraction_smooth(rmin, rmax, ri, rion_min, rion_max, S, A) ==
  IF RLt(rmax, rion_min) THEN Zero
  ELSE IF RLt(rmin, rion_min) /\ RGe(rmax, rion_min)
    THEN RDiv(get_neutral_fraction_integral(A, S, ri, rion_min, rmax),
              CubeDiff(rmin, rmax))
  ELSE IF RGe(rmin, rion_min) /\ RLe(rmax, rion_max)
    THEN RDiv(get_neutral_fraction_integral(A, S, ri, rmin, rmax),
              CubeDiff(rmin, rmax))
  ELSE IF RLt(rmin, rion_max) /\ RGt(rmax, rion_max)
    THEN RDiv(RAdd(get_neutral_fraction_integral(A, S, ri, rmin, rion_max),
                   CubeDiff(rion_max, rmax)),
              CubeDiff(rmin, rmax))
  ELSE One

\* rion - 0.5 * transition_width and rion + 0.5 * transition_width
RionMin(r, W) == RSub(r, RMul(Half, W))
RionMax(r, W) == RAdd(r, RMul(Half, W))

\* the call of get_neutral_fraction in the third loop of do_ionisation, as
\* the build with IONISATION_TRANSITION = tr compiles it
NeutralFractionOf(tr, rmin, rmax, r, W) ==
  IF tr = "SMOOTH"
    THEN get_neutral_fraction_smooth(rmin, rmax, r, RionMin(r, W),
                                     RionMax(r, W), bondi_S(W),
                                     bondi_A(bondi_S(W)))
    ELSE get_neutral_fraction(rmin, rmax, r)

\* the cells of a grid: cells[0] and the last are the ghost cells
ShellsOf(cs) == {k \in DOMAIN cs : k >= 1 /\ k + 1 \in DOMAIN cs}

\* a third loop that stops one shell early
ThirdLoopShort(cs, tr, r, W) ==
  [k \in DOMAIN cs |->
     IF k \in ShellsOf(cs) /\ k + 1 \in ShellsOf(cs)
       THEN [cs[k] EXCEPT !.nfac = NeutralFractionOf(tr, cs[k].lowlim,
                                                     cs[k].uplim, r, W)]
       ELSE cs[k]]

\* third loop of do_ionisation, on a grid of any number of shells
ThirdLoopOn(cs, tr, r, W) ==
  [k \in DOMAIN cs |->
     IF k \in ShellsOf(cs)
       THEN [cs[k] EXCEPT !.nfac = NeutralFractionOf(tr, cs[k].lowlim,
                                                     cs[k].uplim, r, W)]
       ELSE cs[k]]

\* third loop of do_ionisation
ThirdLoopCells(cs, r) ==
  [k \in Cells |->
     IF k \in Active
       THEN [cs[k] EXCEPT !.nfac = get_neutral_fraction(cs[k].lowlim,
                                                        cs[k].uplim, r)]
       ELSE cs[k]]

\* first loop of ionisation_initialize and of get_ionisation_radius:
\* nfac = Cshell = Vshell * rho^2
Cshell(c) ==
  LET Vshell == FDiv(FSub(FCube(c.uplim), FCube(c.lowlim)), Int2R(3))
  IN  FMul(FMul(Vshell, c.rho), c.rho)

FirstLoopCells(cs) ==
  [k \in DOMAIN cs |->
     IF k \in ShellsOf(cs) THEN [cs[k] EXCEPT !.nfac = Cshell(cs[k])]
     ELSE cs[k]]

\* second loop of ionisation_initialize from cell i on: const_bondi_Q for
\* INITIAL_IONISATION_RADIUS = R0
RECURSIVE BondiQ(_, _, _, _)
BondiQ(cs, R0, i, Q) ==
  IF i \notin ShellsOf(cs) THEN Q
  ELSE LET rmin == cs[i].lowlim
           rmax == cs[i].uplim
           ifac == FDiv(FSub(FCube(R0), FCube(rmin)),
                        FSub(FCube(rmax), FCube(rmin)))
       IN  IF RLt(rmax, R0) THEN BondiQ(cs, R0, i + 1, FAdd(Q, cs[i].nfac))
           ELSE IF RLt(rmin, R0)
             THEN BondiQ(cs, R0, i + 1, FAdd(Q, FMul(cs[i].nfac, ifac)))
           ELSE BondiQ(cs, R0, i + 1, Q)

\* 7.96185873 * (std::pow(M, 2.47692987) - 1.) + 1. at M = 1, where the
\* power is 1: central_mass stays MASS_POINT_MASS, as flux_into_inner_mask
\* subtracts mflux * bondi_volume_correction_factor = mflux * 0
get_bondi_Q_factor(M) ==
  FAdd(FMul(Fl(<<796, 100>>), FSub(M, One)), One)

\* the budget get_ionisation_radius starts from
BudgetOf(Q) == FMul(Q, get_bondi_Q_factor(FDiv(One, One)))

\* a * r * r * r
Mul3(a, r) == FMul(FMul(FMul(a, r), r), r)

\* std::min(1., Cion / cells[i]._nfac)
IfacOf(Cion, nfac) == RMin(One, FDiv(Cion, nfac))

\* Cion -= ifac * cells[i]._nfac
BudgetAfter(Cion, ifac, nfac) == FSub(Cion, FMul(ifac, nfac))

\* second loop of get_ionisation_radius (self-consistent) from cell i on,
\* with budget Cion left and radius r so far
RECURSIVE SecondLoop(_, _, _, _)
SecondLoop(cs, i, Cion, r) ==
  IF i > ncell THEN r
  ELSE IF RGt(Cion, Zero)
    THEN LET rmin == cs[i].lowlim
             rmax == cs[i].uplim
             ifac == IfacOf(Cion, cs[i].nfac)
             nfac == FSub(One, ifac)
             rnew == IF RLt(ifac, One)
                       THEN (IF RGt(ifac, Zero)
                               THEN Cbrt(FAdd(Mul3(ifac, rmax),
                                              Mul3(nfac, rmin)))
                               ELSE r)
                       ELSE rmax
         IN  SecondLoop(cs, i + 1, BudgetAfter(Cion, ifac, cs[i].nfac), rnew)
  ELSE SecondLoop(cs, i + 1, Cion, r)


(***************************************************************************)
(* History.  hist records, beside the program, what happened to the        *)
(* packets; no action reads it to decide what the program does.            *)
(*   tau0, spent   the packet's sampled optical depth and the sum of the   *)
(*                 decrements applied to it                                *)
(*   grew          some call raised taurem or made it negative             *)
(*   written       bank entries written for the current packet             *)
(*   calls         ICT/PROPAGATE calls made for the current packet         *)
(*   loaded        bank entries the resume loop has read in this step      *)
(*   callcell      cell index of the latest ICT/PROPAGATE call (0: none)   *)
(*   last          that call and its outcome: cross, absorb or bank        *)
(*   dlen          the path length that call added to its cell             *)
(*   room          the thickness of that cell the packet had before it     *)
(*   path          the path lengths the calls have added for the packet    *)
(*   banked        the packets that ran out of light-travel budget in this *)
(*                 step, in order: <<cell, taurem, distance>>              *)
(*   prevbanked    the same list of the step before                        *)
(*   unstored      packets of this step counted but not written            *)
(*   pre           the cells and the bank when the step began              *)
(*   slotF, slotC  tau0 and spent of the packet in each bank slot          *)
(***************************************************************************)
NoPacket == [tau0 |-> Zero, spent |-> Zero]

HistInit ==
  [tau0 |-> Zero, spent |-> Zero, grew |-> FALSE, written |-> 0, calls |-> 0,
   loaded |-> 0,
   callcell |-> 0, last |-> <<"none", "none">>, banked |-> <<>>,
   prevbanked |-> <<>>, unstored |-> 0, pre |-> <<>>, slotF |-> [s \in Slots |-> NoPacket],
   slotC |-> [s \in Slots |-> NoPacket], kind |-> "none", dlen |-> Zero,
   path |-> Zero, room |-> Zero]

\* the history after a call of ICT or PROPAGATE at cell cl with result res,
\* made with taurem tr and `stored` entries in the bank; dist is the
\* distance stored with a banked packet
HistCall(h, fn, cl, tr, stored, res, dist) ==
  LET isbank == res.what = "bank"
      wrote == isbank /\ BankGuard(stored)
      sp == RAdd(h.spent, res.dtau)
  IN  [h EXCEPT
         !.calls = @ + 1,
         !.callcell = cl,
         !.last = <<fn, res.what>>,
         !.dlen = res.dlen,
         !.path = RAdd(@, res.dlen),
         !.spent = sp,
         !.grew = @ \/ RGt(res.taurem, tr) \/ RLt(res.taurem, Zero),
         !.written = IF wrote THEN @ + 1 ELSE @,
         !.unstored = IF isbank /\ ~wrote THEN @ + 1 ELSE @,
         !.banked = IF isbank THEN Append(@, <<res.cell, res.taurem, dist>>)
                    ELSE @,
         !.slotF = IF wrote
                     THEN [@ EXCEPT ![stored] = [tau0 |-> h.tau0, spent |-> sp]]
                     ELSE @]

(***************************************************************************)
(* The Monte Carlo step (get_ionisation_radius, MONTE_CARLO_TRANSFER, and  *)
(* the third loop of do_ionisation)                                        *)
(***************************************************************************)
\* cells[k]._jmean=0.0; cells[k]._length=0.0;
ResetOf(c) == [c EXCEPT !.jmean = Zero, !.length = Zero]

\* locals, reset of the accumulators
BeginStepUpTo(n) ==
  /\ pc = "begin"
  /\ step < n
  /\ lrem' = dt1
  /\ rion' = Zero
  /\ nbanki' = P_Store[0]._currentnbank
  /\ nbank' = 0
  /\ cells' = [k \in Cells |-> IF k \in Active THEN ResetOf(cells[k])
                               ELSE cells[k]]
  /\ j' = 0
  /\ pc' = "resume"
  /\ hist' = [hist EXCEPT !.banked = <<>>, !.unstored = 0, !.written = 0,
                          !.loaded = 0,
                          !.calls = 0, !.path = Zero, !.callcell = 0,
                          !.last = <<"none", "none">>, !.kind = "none",
                          !.pre = <<cells, P_Store>>]
  /\ UNCHANGED <<step, P_Store, taurem, cell, rcurrent, dt0, dt1, rion_old,
                 bondi_rfile, const_bondi_Q, transition, consts, par>>

BeginStep == BeginStepUpTo(MaxSteps)

\* header and first statements of the loop over stored packets
ResumeLoop ==
  /\ pc = "resume"
  /\ j < nbanki
  /\ LET e == P_Store[j]
         skip == \/ e._currentCell > ncell
                 \/ (REq(e._currentDistance, Zero) /\ REq(e._currentTaurem, Zero))
     IN  /\ taurem' = e._currentTaurem
         /\ cell' = e._currentCell
         /\ rcurrent' = e._currentDistance
         /\ lrem' = dt0
         /\ j' = IF skip THEN j + 1 ELSE j
         /\ pc' = IF skip THEN "resume"
                  ELSE IF RNe(e._currentDistance, Zero) THEN "ict"
                  ELSE "rwhile"
         /\ hist' = [hist EXCEPT !.tau0 = hist.slotC[j].tau0,
                                 !.spent = hist.slotC[j].spent,
                                 !.written = 0, !.calls = 0, !.path = Zero, !.callcell = 0,
                                 !.last = <<"none", "none">>,
                                 !.loaded = @ + 1,
                                 !.kind = IF skip THEN "skipped" ELSE "resumed"]
  /\ UNCHANGED <<step, cells, P_Store, nbanki, nbank, dt0, dt1, rion,
                 rion_old, bondi_rfile, const_bondi_Q, transition, consts, par>>

ResumeExit ==
  /\ pc = "resume"
  /\ j >= nbanki
  /\ j' = 0
  /\ pc' = "emit"
  /\ UNCHANGED <<step, cells, P_Store, nbanki, nbank, taurem, cell, rcurrent,
                 lrem, dt0, dt1, rion, rion_old, bondi_rfile, const_bondi_Q,
                 transition, hist, consts, par>>

CallICT ==
  /\ pc = "ict"
  /\ LET res == ICT(cells[cell], P_Store, cell, taurem, rcurrent, lrem, nbank)
     IN  /\ cells' = [cells EXCEPT ![cell] = res.c]
         /\ P_Store' = res.P_Store
         /\ cell' = res.cell
         /\ taurem' = res.taurem
         /\ rcurrent' = res.rcurrent
         /\ lrem' = res.lrem
         /\ nbank' = res.stored
         /\ hist' = [HistCall(hist, "ICT", cell, taurem, nbank, res,
                             res.rcurrent)
                      EXCEPT !.room = RSub(CELLSIZE, rcurrent)]
  /\ pc' = "rwhile"
  /\ UNCHANGED <<step, nbanki, j, dt0, dt1, rion, rion_old, bondi_rfile,
                 const_bondi_Q, transition, consts, par>>

\* one PROPAGATE call with the packet variables; c is the record read
PropagateWith(c, inarray) ==
  LET res == PROPAGATE(c, P_Store, cell, taurem, lrem, nbank)
  IN  /\ cells' = IF inarray THEN [cells EXCEPT ![cell] = res.c] ELSE cells
      /\ P_Store' = res.P_Store
      /\ cell' = res.cell
      /\ taurem' = res.taurem
      /\ lrem' = res.lrem
      /\ nbank' = res.stored
      /\ hist' = [HistCall(hist, "PROPAGATE", cell, taurem, nbank, res, lrem)
                   EXCEPT !.room = CELLSIZE]

\* while(taurem > 0.0 && lrem>0.0){PROPAGATE(...)} of the stored packets
ResumeWhile ==
  /\ pc = "rwhile"
  /\ RGt(taurem, Zero) /\ RGt(lrem, Zero)
  /\ cell \in Cells
  /\ PropagateWith(cells[cell], TRUE)
  /\ UNCHANGED <<pc, step, nbanki, j, rcurrent, dt0, dt1, rion, rion_old,
                 bondi_rfile, const_bondi_Q, transition, consts, par>>

\* the same call with cell beyond the cell array (ncell+2 and up): the read
\* returns whatever lies there and the write of _length goes nowhere the
\* model keeps ...
ResumeWhileBeyond ==
  /\ pc = "rwhile"
  /\ RGt(taurem, Zero) /\ RGt(lrem, Zero)
  /\ cell \notin Cells
  /\ \E g \in GarbageCells : PropagateWith(g, FALSE)
  /\ UNCHANGED <<pc, step, nbanki, j, rcurrent, dt0, dt1, rion, rion_old,
                 bondi_rfile, const_bondi_Q, transition, consts, par>>

\* ... or the access faults
ResumeWhileFault ==
  /\ pc = "rwhile"
  /\ RGt(taurem, Zero) /\ RGt(lrem, Zero)
  /\ cell \notin Cells
  /\ pc' = "crashed"
  /\ hist' = [hist EXCEPT !.calls = @ + 1, !.callcell = cell]
  /\ UNCHANGED <<step, cells, P_Store, nbanki, nbank, j, taurem, cell,
                 rcurrent, lrem, dt0, dt1, rion, rion_old, bondi_rfile,
                 const_bondi_Q, transition, consts, par>>

ResumeDone ==
  /\ pc = "rwhile"
  /\ ~(RGt(taurem, Zero) /\ RGt(lrem, Zero))
  /\ j' = j + 1
  /\ pc' = "resume"
  /\ UNCHANGED <<step, cells, P_Store, nbanki, nbank, taurem, cell, rcurrent,
                 lrem, dt0, dt1, rion, rion_old, bondi_rfile, const_bondi_Q,
                 transition, hist, consts, par>>

\* header and first statements of the loop over emitted packets
EmitLoop ==
  /\ pc = "emit"
  /\ j < nphoton
  /\ \E tau \in TauVals :
       /\ taurem' = tau
       /\ hist' = [hist EXCEPT !.tau0 = tau, !.spent = Zero, !.written = 0,
                               !.calls = 0, !.path = Zero, !.callcell = 0,
                               !.last = <<"none", "none">>,
                               !.kind = "emitted"]
  /\ cell' = 1
  /\ lrem' = dt1
  /\ pc' = "ewhile"
  /\ UNCHANGED <<step, cells, P_Store, nbanki, nbank, j, rcurrent, dt0, dt1,
                 rion, rion_old, bondi_rfile, const_bondi_Q, transition, consts, par>>

EmitExit ==
  /\ pc = "emit"
  /\ j >= nphoton
  /\ pc' = "jmean"
  /\ UNCHANGED <<step, cells, P_Store, nbanki, nbank, j, taurem, cell,
                 rcurrent, lrem, dt0, dt1, rion, rion_old, bondi_rfile,
                 const_bondi_Q, transition, hist, consts, par>>

\* while(taurem>0.0 && lrem >0.0){ if (cell>ncell) {break;} PROPAGATE(...) }
EmitWhile ==
  /\ pc = "ewhile"
  /\ RGt(taurem, Zero) /\ RGt(lrem, Zero)
  /\ ~(cell > ncell)
  /\ PropagateWith(cells[cell], TRUE)
  /\ UNCHANGED <<pc, step, nbanki, j, rcurrent, dt0, dt1, rion, rion_old,
                 bondi_rfile, const_bondi_Q, transition, consts, par>>

EmitDone ==
  /\ pc = "ewhile"
  /\ ~(RGt(taurem, Zero) /\ RGt(lrem, Zero)) \/ cell > ncell
  /\ j' = j + 1
  /\ pc' = "emit"
  /\ UNCHANGED <<step, cells, P_Store, nbanki, nbank, taurem, cell, rcurrent,
                 lrem, dt0, dt1, rion, rion_old, bondi_rfile, const_bondi_Q,
                 transition, hist, consts, par>>

\* cells[k]._jmean = (Qion*sigma*length)/(nphoton*vcell)
JmeanOf(c) == [c EXCEPT !.jmean = MeanIntensityOf(c)]

\* mean intensity of every active cell
MeanIntensity ==
  /\ pc = "jmean"
  /\ cells' = [k \in Cells |->
                 IF k \in Active
                   THEN JmeanOf(cells[k])
                   ELSE cells[k]]
  /\ pc' = "update"
  /\ UNCHANGED <<step, P_Store, nbanki, nbank, j, taurem, cell, rcurrent,
                 lrem, dt0, dt1, rion, rion_old, bondi_rfile, const_bondi_Q,
                 transition, hist, consts, par>>

\* the arrays the loop over k = 1..ncell of
\* UPDATE_ION(cells,k,cells[1]._dt*UNIT_TIME_IN_SI); last_jmean = jmean
\* can leave, from cell k on
RECURSIVE UpdatedCells(_, _, _)
UpdatedCells(cs, delta, k) ==
  IF k > ncell THEN {cs}
  ELSE UNION {UpdatedCells([cs EXCEPT ![k] =
                              [UPDATE_ION(cs[k], delta, gen)
                                 EXCEPT !.last_jmean = cs[k].jmean]],
                           delta, k + 1) :
                gen \in GeneralValues(cs[k], delta)}

UpdateIon ==
  /\ pc = "update"
  /\ cells' \in UpdatedCells(cells, dt1, 1)
  /\ pc' = "check"
  /\ UNCHANGED <<step, P_Store, nbanki, nbank, j, taurem, cell, rcurrent,
                 lrem, dt0, dt1, rion, rion_old, bondi_rfile, const_bondi_Q,
                 transition, hist, consts, par>>

\* a check that lets one packet too many through
OverflowedLate(n) == n > sizebank + 1

\* the condition of `if (nbank>sizebank){break;}`
Overflowed(n) == n > sizebank

\* the break: the loop over the time steps is left
OverflowBreak ==
  /\ pc = "check"
  /\ Overflowed(nbank)
  /\ pc' = "halted"
  /\ UNCHANGED <<step, cells, P_Store, nbanki, nbank, j, taurem, cell,
                 rcurrent, lrem, dt0, dt1, rion, rion_old, bondi_rfile,
                 const_bondi_Q, transition, hist, consts, par>>

\* a rotation loop that copies the entries and does not clear them
ShiftedBankUncleared(ps, n) ==
  [s \in Slots |->
     IF s < n
       THEN [ps[s] EXCEPT !._currentTaurem = ps[s]._futureTaurem,
                          !._currentCell = ps[s]._futureCell,
                          !._currentDistance = ps[s]._futureDistance]
       ELSE ps[s]]

\* the rotation loop over j < nbank
ShiftedBank(ps, n) ==
  [s \in Slots |->
     IF s < n
       THEN [ps[s] EXCEPT !._currentTaurem = ps[s]._futureTaurem,
                          !._currentCell = ps[s]._futureCell,
                          !._currentDistance = ps[s]._futureDistance,
                          !._futureTaurem = Zero,
                          !._futureDistance = Zero,
                          !._futureCell = 0]
       ELSE ps[s]]

\* a rotation that records one entry fewer than it moved
RotatedBankShort(ps, n) ==
  [ShiftedBank(ps, n) EXCEPT ![0]._currentnbank = IF n > 0 THEN n - 1 ELSE 0]

\* the rotation, and P_Store[0]._currentnbank=nbank
RotatedBank(ps, n) == [ShiftedBank(ps, n) EXCEPT ![0]._currentnbank = n]

Rotate ==
  /\ pc = "check"
  /\ ~Overflowed(nbank)
  /\ P_Store' = RotatedBank(P_Store, nbank)
  /\ hist' = [hist EXCEPT !.prevbanked = hist.banked,
                          !.slotC = hist.slotF]
  /\ pc' = "rion"
  /\ UNCHANGED <<step, cells, nbanki, nbank, j, taurem, cell, rcurrent, lrem,
                 dt0, dt1, rion, rion_old, bondi_rfile, const_bondi_Q,
                 transition, consts, par>>

CalcRion ==
  /\ pc = "rion"
  /\ rion' = ScanRion(cells, 1, rion)
  /\ pc' = "log"
  /\ UNCHANGED <<step, cells, P_Store, nbanki, nbank, j, taurem, cell,
                 rcurrent, lrem, dt0, dt1, rion_old, bondi_rfile,
                 const_bondi_Q, transition, hist, consts, par>>

\* the log block of the Monte Carlo mode: Cion = Qion
LogRadiusMC ==
  /\ pc = "log"
  /\ LET w == LogWrite(bondi_rfile, rion_old, step, rion, QionF)
     IN  /\ bondi_rfile' = w.file
         /\ rion_old' = w.rion_old
  /\ pc' = "third"
  /\ UNCHANGED <<step, cells, P_Store, nbanki, nbank, j, taurem, cell,
                 rcurrent, lrem, dt0, dt1, rion, const_bondi_Q, transition,
                 hist, consts, par>>

\* third loop of do_ionisation; the solver then takes the next step (with
\* the same time step: the run has a constant one)
ThirdLoop ==
  /\ pc = "third"
  /\ cells' = ThirdLoopCells(cells, rion)
  /\ step' = step + 1
  /\ pc' = "begin"
  /\ UNCHANGED <<P_Store, nbanki, nbank, j, taurem, cell, rcurrent, lrem,
                 dt0, dt1, rion, rion_old, bondi_rfile, const_bondi_Q,
                 transition, hist, consts, par>>

\* the state after ionisation_initialize, before the first step, with
\* INITIAL_IONISATION_RADIUS at the outer wall of the first shell
Init ==
  /\ pc = "begin"
  /\ step = 0
  /\ \E ion \in SUBSET Active :
       cells = FirstLoopCells([k \in Cells |->
                 InShell(IF k \in ion THEN IonisedCell ELSE NeutralCell,
                         Zero, k)])
  /\ const_bondi_Q = BondiQ(cells, cells[1].uplim, 1, Zero)
  /\ P_Store = [s \in Slots |-> EmptyEntry]
  /\ nbanki = 0 /\ nbank = 0 /\ j = 0
  /\ taurem = Zero /\ cell = 0 /\ rcurrent = Zero /\ lrem = Zero
  /\ dt0 \in LremVals /\ dt1 \in LremVals
  /\ rion = Zero /\ rion_old = Zero /\ bondi_rfile = <<>>
  /\ transition = "JUMP"
  /\ consts = [DefaultConsts EXCEPT
                 !.initial_ionisation_radius = cells[1].uplim]
  /\ hist = HistInit
  /\ par = ParIdle

Next ==
  \/ BeginStep \/ ResumeLoop \/ ResumeExit \/ CallICT
  \/ ResumeWhile \/ ResumeWhileBeyond \/ ResumeWhileFault \/ ResumeDone
  \/ EmitLoop \/ EmitExit \/ EmitWhile \/ EmitDone
  \/ MeanIntensity \/ UpdateIon \/ OverflowBreak \/ Rotate
  \/ CalcRion \/ LogRadiusMC \/ ThirdLoop

Spec == Init /\ [][Next]_vars

(***************************************************************************)
(* Properties of the Monte Carlo step                                      *)
(***************************************************************************)
\* the packet loop is about to move on: the while condition is false, or
\* the emission loop's break is taken
PacketDone ==
  \/ pc = "rwhile" /\ ~(RGt(taurem, Zero) /\ RGt(lrem, Zero))
  \/ pc = "ewhile" /\ (~(RGt(taurem, Zero) /\ RGt(lrem, Zero)) \/ cell > ncell)

Absorbed == REq(taurem, Zero)
Escaped == cell > ncell
Banked == hist.written = 1

\* C1: at the end of its propagation every packet of the step, emitted or
\* resumed, is in exactly one of the states Absorbed (taurem = 0), Escaped
\* (cell > ncell) and Banked (exactly one bank entry written for it).
C1_ExactlyOneTerminalState ==
  PacketDone =>
    \/ Absorbed /\ ~Escaped /\ ~Banked
    \/ ~Absorbed /\ Escaped /\ ~Banked
    \/ ~Absorbed /\ ~Escaped /\ Banked

\* the packet a bank entry's current fields hold
CurrentOf(e) == <<e._currentCell, e._currentTaurem, e._currentDistance>>

AfterRotation == pc \in {"rion", "log", "third", "begin"}

C4_OverflowHalts ==
  /\ [](AfterRotation =>
          (Len(hist.banked) <= sizebank /\ hist.unstored = 0))
  /\ [][(pc = "check" /\ Len(hist.banked) > sizebank) => pc' = "halted"]_vars

\* the run is halted after a step that counted a packet without storing it
C4_Witness == pc = "halted" /\ hist.unstored > 0

\* the fields of a cell the hydro solver reads
RadiativeOf(c) == <<c.jmean, c.nfac_MC, c.ifrac, c.ft0>>

\* C5: when a step ends in bank overflow, jmean, nfac_MC, ifrac and ft0 of
\* every cell, and the current entries and count of the bank, are as they
\* were before the step.
C5_NoPartialStateOnOverflow ==
  pc = "halted" =>
    /\ \A k \in Active : RadiativeOf(cells[k]) = RadiativeOf(hist.pre[1][k])
    /\ \A s \in Slots : CurrentOf(P_Store[s]) = CurrentOf(hist.pre[2][s])
    /\ P_Store[0]._currentnbank = hist.pre[2][0]._currentnbank

\* C6: ICT and PROPAGATE are never called with a cell index above ncell.
C6_NoPropagationBeyondNcell == hist.callcell <= ncell


(***************************************************************************)
(* UPDATE_ION on its own: one call on cells[1], from any state of the      *)
(* cell, with the closed form of the general branch evaluated exactly.     *)
(***************************************************************************)
\* equilibrium ionised fractions x the mean intensities are built from:
\* with IoR = x^2/(1-x) the square root sqrt(IoR*(IoR+4)) is IoR + 2x
XVals == {Zero, <<1, 2>>, <<2, 3>>}
IoRAt(x) == RDiv(RMul(x, x), RSub(One, x))
RootVals == {RAdd(IoRAt(x), RMul(Int2R(2), x)) : x \in XVals}

\* std::sqrt on the values that occur
SqrtR(v) ==
  IF IsNaN(v) THEN NaN
  ELSE IF v = PInf THEN PInf
  ELSE CHOOSE r \in RootVals : RMul(r, r) = v

\* std::tanh: 0 at 0, 1 from about 19 on, NaN at NaN, and in between a
\* value in (0, 1) that stands for any
TanhVals(a) ==
  IF IsNaN(a) THEN {NaN}
  ELSE IF REq(a, Zero) THEN {Zero}
  ELSE {<<1, 4>>, <<3, 4>>, One}

\* the operands of the general branch
RootOf(c) == SqrtR(RMul(IoROf(c), RAdd(IoROf(c), Int2R(4))))
Arg2Of(c, delta) == RMul(RMul(RMul(Half, ConBOf(c)), RootOf(c)), delta)

IonFt0Vals == {Zero, <<1, 4>>, Half, One}
IonNfacVals == {Zero, Half, One}
IonRhoVals == {Zero, One, Int2R(2)}
IonDeltaVals == {Zero, One, Int2R(3)}

IonCall ==
  /\ pc = "ion_call"
  /\ \E th \in TanhVals(Arg2Of(cells[1], dt1)) :
       cells' = [cells EXCEPT ![1] =
                   UPDATE_ION(cells[1], dt1,
                              Riccati(cells[1].ft0, IoROf(cells[1]),
                                      RootOf(cells[1]), th))]
  /\ pc' = "ion_done"
  /\ hist' = [hist EXCEPT !.pre = <<cells, P_Store>>]
  /\ UNCHANGED <<step, P_Store, nbanki, nbank, j, taurem, cell, rcurrent,
                 lrem, dt0, dt1, rion, rion_old, bondi_rfile, const_bondi_Q,
                 transition, consts, par>>

\* any cell with ft0 in [0,1], jmean >= 0 and ConB >= 0, and any delta >= 0
InitIon ==
  /\ pc = "ion_call"
  /\ step = 0
  /\ \E f \in IonFt0Vals, n \in IonNfacVals, r \in IonRhoVals, x \in XVals :
       cells = [k \in Cells |->
                  InShell(IF k = 1
                            THEN [NeutralCell EXCEPT
                                    !.rho = r, !.ft0 = f, !.ifrac = f,
                                    !.nfac_MC = n,
                                    !.jmean = IF REq(r, Zero) THEN x
                                              ELSE RMul(IoRAt(x),
                                                        RMul(AlphaB, r))]
                            ELSE NeutralCell,
                          Zero, k)]
  /\ dt1 \in IonDeltaVals
  /\ dt0 = dt1
  /\ P_Store = [s \in Slots |-> EmptyEntry]
  /\ nbanki = 0 /\ nbank = 0 /\ j = 0
  /\ taurem = Zero /\ cell = 1 /\ rcurrent = Zero /\ lrem = Zero
  /\ rion = Zero /\ rion_old = Zero /\ bondi_rfile = <<>>
  /\ const_bondi_Q = Zero
  /\ transition = "JUMP"
  /\ consts = DefaultConsts
  /\ hist = HistInit
  /\ par = ParIdle

NextIon == IonCall

SpecIon == InitIon /\ [][NextIon]_vars

\* C7: after a call of UPDATE_ION on a cell with ft0 in [0,1], jmean >= 0
\* and ConB >= 0, with delta >= 0, nfac_MC + ifrac = 1 and both lie in
\* [0,1], whichever branch was taken.
C7_UpdateIonKeepsFractions ==
  pc = "ion_done" =>
    /\ REq(RAdd(cells[1].nfac_MC, cells[1].ifrac), One)
    /\ RGe(cells[1].nfac_MC, Zero) /\ RLe(cells[1].nfac_MC, One)
    /\ RGe(cells[1].ifrac, Zero) /\ RLe(cells[1].ifrac, One)

(***************************************************************************)
(* The self-consistent mode: do_ionisation, pass by pass, every step on    *)
(* the density field the hydro scheme has left.                            *)
(***************************************************************************)
\* the density fields: uniform, or with a different density in the
\* innermost shell
DensityFields ==
  {[k \in Cells |-> IF k = 1 THEN a ELSE b] : a \in RhoVals, b \in RhoVals}

\* the values of INITIAL_IONISATION_RADIUS: the walls and the middles of
\* the shells of a grid that starts at rmin0
R0Vals(rmin0) ==
  {Fl(RAdd(rmin0, RMul(Int2R(h), RMul(Half, CELLSIZE)))) : h \in 0..(2 * ncell)}

WithDensity(cs, f) == [k \in Cells |-> [cs[k] EXCEPT !.rho = f[k]]]

\* first loop of get_ionisation_radius
SCFirstLoop ==
  /\ pc = "sc_first"
  /\ cells' = FirstLoopCells(cells)
  /\ pc' = "sc_second"
  /\ UNCHANGED <<step, P_Store, nbanki, nbank, j, taurem, cell, rcurrent,
                 lrem, dt0, dt1, rion, rion_old, bondi_rfile, const_bondi_Q,
                 transition, hist, consts, par>>

\* second loop of get_ionisation_radius
SCSecondLoop ==
  /\ pc = "sc_second"
  /\ rion' = SecondLoop(cells, 1, BudgetOf(const_bondi_Q), Zero)
  /\ pc' = "sc_log"
  /\ UNCHANGED <<step, cells, P_Store, nbanki, nbank, j, taurem, cell,
                 rcurrent, lrem, dt0, dt1, rion_old, bondi_rfile,
                 const_bondi_Q, transition, hist, consts, par>>

\* the log block of the self-consistent mode
SCLog ==
  /\ pc = "sc_log"
  /\ LET w == LogWrite(bondi_rfile, rion_old, step, rion,
                       BudgetOf(const_bondi_Q))
     IN  /\ bondi_rfile' = w.file
         /\ rion_old' = w.rion_old
  /\ pc' = "sc_third"
  /\ UNCHANGED <<step, cells, P_Store, nbanki, nbank, j, taurem, cell,
                 rcurrent, lrem, dt0, dt1, rion, const_bondi_Q, transition,
                 hist, consts, par>>

\* third loop of do_ionisation
SCThirdLoop ==
  /\ pc = "sc_third"
  /\ cells' = ThirdLoopCells(cells, rion)
  /\ pc' = "sc_hydro"
  /\ UNCHANGED <<step, P_Store, nbanki, nbank, j, taurem, cell, rcurrent,
                 lrem, dt0, dt1, rion, rion_old, bondi_rfile, const_bondi_Q,
                 transition, hist, consts, par>>

\* the hydro step between two calls of do_ionisation: new densities
SCHydro ==
  /\ pc = "sc_hydro"
  /\ step < MaxSteps
  /\ \E f \in DensityFields : cells' = WithDensity(cells, f)
  /\ step' = step + 1
  /\ pc' = "sc_first"
  /\ UNCHANGED <<P_Store, nbanki, nbank, j, taurem, cell, rcurrent, lrem,
                 dt0, dt1, rion, rion_old, bondi_rfile, const_bondi_Q,
                 transition, hist, consts, par>>

\* the state after ionisation_initialize
InitSC ==
  /\ pc = "sc_first"
  /\ step = 0
  /\ \E rmin0 \in RMinVals, f \in DensityFields :
       /\ cells = FirstLoopCells(WithDensity(
                     [k \in Cells |-> InShell(NeutralCell, rmin0, k)], f))
       /\ \E R0 \in R0Vals(rmin0) :
            /\ const_bondi_Q = BondiQ(cells, R0, 1, Zero)
            /\ consts = [DefaultConsts EXCEPT
                           !.initial_ionisation_radius = R0]
  /\ P_Store = [s \in Slots |-> EmptyEntry]
  /\ nbanki = 0 /\ nbank = 0 /\ j = 0
  /\ taurem = Zero /\ cell = 0 /\ rcurrent = Zero /\ lrem = Zero
  /\ dt0 = One /\ dt1 = One
  /\ rion = Zero /\ rion_old = Zero /\ bondi_rfile = <<>>
  /\ transition = "JUMP"
  /\ hist = HistInit
  /\ par = ParIdle

NextSC == SCFirstLoop \/ SCSecondLoop \/ SCLog \/ SCThirdLoop \/ SCHydro

SpecSC == InitSC /\ [][NextSC]_vars

IsFraction(x) == RGe(x, Zero) /\ RLe(x, One)

Uniform == \A k \in Active : cells[k].rho = cells[1].rho

\* the sum of the absorption weights of shells a..b, unrounded
RECURSIVE WeightSum(_, _, _)
WeightSum(cs, a, b) ==
  IF a > b THEN Zero ELSE RAdd(cs[a].nfac, WeightSum(cs, a + 1, b))

\* the budget is the sum of the weights of the first K shells
BudgetIsSum(K) == REq(BudgetOf(const_bondi_Q), WeightSum(cells, 1, K))

\* C9: on a grid of uniform density, with a budget equal to the
\* sum of the absorption weights of the first K shells, the second loop
\* returns the outer wall of shell K exactly, whatever shells follow.
C9_RadiusIsShellBoundary ==
  pc = "sc_log" =>
    \A K \in Active :
      Uniform /\ BudgetIsSum(K) => REq(rion, cells[K].uplim)

(***************************************************************************)
(* The log block of get_ionisation_radius on its own, on radii within and  *)
(* beyond the tolerance of each other.                                     *)
(***************************************************************************)
\* radii the solver returns from step to step: 0, 1, 2, and radii 1 part
\* in 10000 below 1 and 1, 2 and 3 parts above
LogRadii == {Zero, One, <<2, 1>>, <<9999, 10000>>, <<10001, 10000>>,
             <<10002, 10000>>, <<10003, 10000>>}

\* get_ionisation_radius with the radius it finds and its log block; the
\* third loop and the next step follow
LogStep ==
  /\ pc = "log_step"
  /\ step < MaxSteps
  /\ \E r \in LogRadii :
       /\ rion' = r
       /\ LET w == LogWrite(bondi_rfile, rion_old, step, r,
                            BudgetOf(const_bondi_Q))
          IN  /\ bondi_rfile' = w.file
              /\ rion_old' = w.rion_old
       /\ cells' = ThirdLoopCells(cells, r)
  /\ step' = step + 1
  /\ UNCHANGED <<pc, P_Store, nbanki, nbank, j, taurem, cell, rcurrent,
                 lrem, dt0, dt1, const_bondi_Q, transition, hist, consts, par>>

\* the state after ionisation_initialize (initialize_bondi_rfile sets
\* rion_old = 0 and opens an empty file)
InitLog ==
  /\ pc = "log_step"
  /\ step = 0
  /\ cells = FirstLoopCells([k \in Cells |-> InShell(NeutralCell, Zero, k)])
  /\ \E k \in Active :
       /\ const_bondi_Q = BondiQ(cells, cells[k].uplim, 1, Zero)
       /\ consts = [DefaultConsts EXCEPT
                      !.initial_ionisation_radius = cells[k].uplim]
  /\ P_Store = [s \in Slots |-> EmptyEntry]
  /\ nbanki = 0 /\ nbank = 0 /\ j = 0
  /\ taurem = Zero /\ cell = 0 /\ rcurrent = Zero /\ lrem = Zero
  /\ dt0 = One /\ dt1 = One
  /\ rion = Zero /\ rion_old = Zero /\ bondi_rfile = <<>>
  /\ transition = "JUMP"
  /\ hist = HistInit
  /\ par = ParIdle

NextLog == LogStep

SpecLog == InitLog /\ [][NextLog]_vars

\* the radius of the last record written, 0 before the first
LastLogged == IF bondi_rfile = <<>> THEN Zero
              ELSE bondi_rfile[Len(bondi_rfile)][2]

\* |a - b| > 1e-4 * |a + b|
BeyondTolerance(a, b) ==
  LET d == RSub(a, b)
      m == RAdd(a, b)
  IN  RGt(IF RLt(d, Zero) THEN RNeg(d) ELSE d,
          RDiv(IF RLt(m, Zero) THEN RNeg(m) ELSE m, Int2R(10000)))

\* C10: in each step a record (time, radius, photon rate) is appended if
\* and only if the radius differs from rion_old by more than the relative
\* tolerance; rion_old is the radius of the last record written (0 before
\* the first) and changes only when a record is written; any two
\* consecutive records differ in radius by more than the tolerance.
C10_DebouncedLog ==
  /\ [](/\ REq(rion_old, LastLogged)
        /\ \A i \in 1..(Len(bondi_rfile) - 1) :
             BeyondTolerance(bondi_rfile[i + 1][2], bondi_rfile[i][2]))
  /\ [][step' = step + 1 =>
          IF BeyondTolerance(rion', rion_old)
            THEN /\ Len(bondi_rfile') = Len(bondi_rfile) + 1
                 /\ SubSeq(bondi_rfile', 1, Len(bondi_rfile)) = bondi_rfile
                 /\ bondi_rfile'[Len(bondi_rfile')][1] = step
                 /\ bondi_rfile'[Len(bondi_rfile')][2] = rion'
                 /\ rion_old' = rion'
            ELSE bondi_rfile' = bondi_rfile /\ rion_old' = rion_old]_vars

\* a step that wrote a record, followed by a step that did not, for a
\* radius within the tolerance of the logged one but not equal to it
C10_Witness ==
  /\ Len(bondi_rfile) = 1
  /\ step = 2
  /\ bondi_rfile[1][1] = 0
  /\ bondi_rfile[1][2] = One
  /\ rion = <<10002, 10000>>
  /\ rion_old = One

(***************************************************************************)
(* The constant radius mode (IONISATION_MODE_CONSTANT): do_ionisation, the *)
(* conversion to primitive variables with update_pressure, the boundary    *)
(* conditions and the hydro step, on a grid of any number of shells.  The  *)
(* pressure and the boundary gradients are computed without rounding.      *)
(***************************************************************************)
\* initialize (IC_BONDI): the same density and velocity everywhere,
\* P = ISOTHERMAL_C_SQUARED * rho, nfac = 0
InitialCell == [NeutralCell EXCEPT !.P = RMul(ISOTHERMAL_C_SQUARED, One)]

\* the grid of n shells from rmin0 on, with its two ghost cells; the walls
\* are whole numbers below 2^53, which a double holds without rounding
GridOf(n, rmin0) ==
  [k \in 0..(n + 1) |->
     [InitialCell EXCEPT
        !.lowlim = RAdd(rmin0, RMul(Int2R(k - 1), CELLSIZE)),
        !.uplim = RAdd(rmin0, RMul(Int2R(k), CELLSIZE))]]

\* ncell of the grid cs
NcellOf(cs) == CHOOSE k \in ShellsOf(cs) : k + 1 \notin ShellsOf(cs)

\* do_ionisation: rion = INITIAL_IONISATION_RADIUS and the third loop
ConstIonisation ==
  /\ pc = "c_ion"
  /\ rion' = consts.initial_ionisation_radius
  /\ cells' = ThirdLoopOn(cells, transition, consts.initial_ionisation_radius,
                          consts.transition_width)
  /\ j' = 1
  /\ pc' = "c_prim"
  /\ UNCHANGED <<step, P_Store, nbanki, nbank, taurem, cell, rcurrent, lrem,
                 dt0, dt1, rion_old, bondi_rfile, const_bondi_Q, transition,
                 hist, consts, par>>

\* a pressure without the contrast of the ionised gas
isothermal_pressure(cs, i, contrast) ==
  [cs EXCEPT ![i].P = RMul(ISOTHERMAL_C_SQUARED, cs[i].rho)]

\* update_pressure for cells[i]
update_pressure(cs, i, contrast) ==
  LET nfac == cs[i].nfac
      ifac == RSub(One, nfac)
  IN  [cs EXCEPT ![i].P = RMul(RMul(ISOTHERMAL_C_SQUARED, cs[i].rho),
                               RAdd(RMul(contrast, ifac), nfac))]

\* the conversion to primitive variables, cell by cell
UpdatePressure ==
  /\ pc = "c_prim"
  /\ j \in ShellsOf(cells)
  /\ cells' = update_pressure(cells, j, consts.bondi_pressure_contrast)
  /\ j' = j + 1
  /\ UNCHANGED <<pc, step, P_Store, nbanki, nbank, taurem, cell, rcurrent,
                 lrem, dt0, dt1, rion, rion_old, bondi_rfile, const_bondi_Q,
                 transition, hist, consts, par>>

boundary_conditions_primitive_variables(cs, co) ==
  LET n == NcellOf(cs)
  IN  [cs EXCEPT ![0].rho = cs[1].rho, ![0].u = cs[1].u, ![0].P = cs[1].P,
                 ![n + 1].rho = co.bondi_density_high,
                 ![n + 1].u = co.bondi_velocity_high,
                 ![n + 1].P = co.bondi_pressure_high]

BoundaryPrimitives ==
  /\ pc = "c_prim"
  /\ j \notin ShellsOf(cells)
  /\ cells' = boundary_conditions_primitive_variables(cells, consts)
  /\ pc' = "c_grad"
  /\ UNCHANGED <<step, P_Store, nbanki, nbank, j, taurem, cell, rcurrent,
                 lrem, dt0, dt1, rion, rion_old, bondi_rfile, const_bondi_Q,
                 transition, hist, consts, par>>

\* std::max
RMax(a, b) == IF RLt(a, b) THEN b ELSE a

\* the slope of the outer ghost cell before limiting, for the value a of
\* cells[ncell] and the analytic value m one cell beyond the ghost cell
LimiterGradient(a, m) == RMul(RSub(m, a), RInv(CELLSIZE))

\* alpha_rho, alpha_u, alpha_P: g is the value of the ghost cell
LimiterAlpha(a, g, m) ==
  LET grad == LimiterGradient(a, m)
      vmax == RMax(a, m)
      vmin == RMin(a, m)
      ext_plu == RMul(HALF_CELLSIZE, grad)
      ext_min == RMul(RNeg(HALF_CELLSIZE), grad)
      extmax == RMax(ext_min, ext_plu)
      extmin == RMin(ext_min, ext_plu)
  IN  IF RNe(grad, Zero)
        THEN RMin(One, RMul(Half, RMin(RDiv(RSub(vmax, g), extmax),
                                       RDiv(RSub(vmin, g), extmin))))
        ELSE One

LimitedGradient(a, g, m) == RMul(LimiterAlpha(a, g, m), LimiterGradient(a, m))

boundary_conditions_gradients(cs, co) ==
  LET n == NcellOf(cs)
  IN  [cs EXCEPT
         ![0].grad_rho = cs[1].grad_rho,
         ![0].grad_u = cs[1].grad_u,
         ![0].grad_P = cs[1].grad_P,
         ![n + 1].grad_rho =
            LimitedGradient(cs[n].rho, cs[n + 1].rho, co.bondi_density_max),
         ![n + 1].grad_u =
            LimitedGradient(cs[n].u, cs[n + 1].u, co.bondi_velocity_max),
         ![n + 1].grad_P =
            LimitedGradient(cs[n].P, cs[n + 1].P, co.bondi_pressure_max)]

BoundaryGradients ==
  /\ pc = "c_grad"
  /\ cells' = boundary_conditions_gradients(cells, consts)
  /\ pc' = "c_hydro"
  /\ UNCHANGED <<step, P_Store, nbanki, nbank, j, taurem, cell, rcurrent,
                 lrem, dt0, dt1, rion, rion_old, bondi_rfile, const_bondi_Q,
                 transition, hist, consts, par>>

\* the velocities the hydro scheme leaves: at rest, or inflow
UVals == {Zero, <<-1, 1>>}

\* the hydro step between two calls of do_ionisation: new densities and
\* velocities
ConstHydro ==
  /\ pc = "c_hydro"
  /\ step < MaxSteps
  /\ \E a \in RhoVals, v \in UVals :
       cells' = [k \in DOMAIN cells |->
                   IF k \in ShellsOf(cells)
                     THEN [cells[k] EXCEPT !.rho = a, !.u = v]
                     ELSE cells[k]]
  /\ step' = step + 1
  /\ pc' = "c_ion"
  /\ UNCHANGED <<P_Store, nbanki, nbank, j, taurem, cell, rcurrent, lrem,
                 dt0, dt1, rion, rion_old, bondi_rfile, const_bondi_Q,
                 transition, hist, consts, par>>

NextConst ==
  \/ ConstIonisation \/ UpdatePressure \/ BoundaryPrimitives
  \/ BoundaryGradients \/ ConstHydro

\* values of INITIAL_IONISATION_RADIUS: the walls, the middles and the
\* quarters of the first two shells
ProfileRadii == {Norm(h, 2) : h \in 0..8}
\* values of transition_width: none, a quarter of a shell, a whole shell
WidthVals == {Zero, <<1, 2>>, <<2, 1>>}

\* the state after ionisation_initialize on the grid of ncell shells that
\* starts at the centre
InitProfile ==
  /\ pc = "c_ion"
  /\ step = 0
  /\ cells = FirstLoopCells(GridOf(ncell, Zero))
  /\ transition \in {"JUMP", "SMOOTH"}
  /\ \E R0 \in ProfileRadii, W \in WidthVals :
       /\ consts = [DefaultConsts EXCEPT !.initial_ionisation_radius = R0,
                                         !.transition_width = W]
       /\ const_bondi_Q = BondiQ(cells, R0, 1, Zero)
  /\ P_Store = [s \in Slots |-> EmptyEntry]
  /\ nbanki = 0 /\ nbank = 0 /\ j = 0
  /\ taurem = Zero /\ cell = 0 /\ rcurrent = Zero /\ lrem = Zero
  /\ dt0 = One /\ dt1 = One
  /\ rion = Zero /\ rion_old = Zero /\ bondi_rfile = <<>>
  /\ hist = HistInit
  /\ par = ParIdle

SpecProfile == InitProfile /\ [][NextConst]_vars

\* the third loop has run and the hydro step has not yet changed the cells
AfterConstIonisation == pc \in {"c_prim", "c_grad", "c_hydro"}

\* C11: after the third loop of do_ionisation the neutral fraction of every
\* shell lies in [0,1], and from each shell to the next one outwards it
\* does not decrease, in the jump and in the smooth policy, whatever the
\* ionisation radius and the transition width, wider or narrower than a
\* shell.
C11_FractionInRangeAndMonotonic ==
  AfterConstIonisation =>
    /\ \A k \in ShellsOf(cells) : IsFraction(cells[k].nfac)
    /\ \A k \in ShellsOf(cells) :
         k + 1 \in ShellsOf(cells) => RLe(cells[k].nfac, cells[k + 1].nfac)

\* the volume fraction as the spec writes it, in doubles and in rationals
JumpVolumeFraction(rmin, rmax, r) ==
  FDiv(FSub(FCube(rmax), FCube(r)), FSub(FCube(rmax), FCube(rmin)))
ExactVolumeFraction(rmin, rmax, r) ==
  RDiv(CubeDiff(r, rmax), CubeDiff(rmin, rmax))

\* x and its powers are doubles
Representable(x) == Fl(x) = x
CubeRepresentable(x) == Representable(RMul(x, x)) /\ Representable(RCube(x))

\* C12: with the jump policy the third loop gives 0 to a shell with
\* rmax <= rion, 1 to a shell with rmin >= rion, and to the shell with
\* rmin < rion < rmax the value of (rmax^3 - rion^3)/(rmax^3 - rmin^3), which
\* is the exact quotient rounded once where the cubes and their differences
\* are doubles.
C12_JumpProfile ==
  (AfterConstIonisation /\ transition = "JUMP") =>
    \A k \in ShellsOf(cells) :
      LET rmin == cells[k].lowlim
          rmax == cells[k].uplim
          n == cells[k].nfac
      IN  /\ RLe(rmax, rion) => n = Zero
          /\ RGe(rmin, rion) => n = One
          /\ (RLt(rmin, rion) /\ RLt(rion, rmax)) =>
               /\ n = JumpVolumeFraction(rmin, rmax, rion)
               /\ ( /\ CubeRepresentable(rmin) /\ CubeRepresentable(rmax)
                    /\ CubeRepresentable(rion)
                    /\ Representable(CubeDiff(rion, rmax))
                    /\ Representable(CubeDiff(rmin, rmax)) )
                  => n = Fl(ExactVolumeFraction(rmin, rmax, rion))

\* the radius lies inside the second shell: one shell inside, one shell
\* straddling with a fraction strictly between 0 and 1, one shell outside
C12_Witness ==
  /\ AfterConstIonisation /\ transition = "JUMP"
  /\ cells[1].nfac = Zero /\ RLt(cells[1].uplim, rion)
  /\ RLt(cells[2].lowlim, rion) /\ RLt(rion, cells[2].uplim)
  /\ RGt(cells[2].nfac, Zero) /\ RLt(cells[2].nfac, One)
  /\ cells[3].nfac = One

\* C13: with the smooth policy the third loop gives exactly 0 to every
\* shell with rmax <= rion - width/2 and exactly 1 to every shell with
\* rmin >= rion + width/2, the walls that lie on the edges of the
\* transition included.
C13_SmoothProfileEnds ==
  (AfterConstIonisation /\ transition = "SMOOTH") =>
    \A k \in ShellsOf(cells) :
      /\ RLe(cells[k].uplim, RionMin(rion, consts.transition_width))
           => cells[k].nfac = Zero
      /\ RGe(cells[k].lowlim, RionMax(rion, consts.transition_width))
           => cells[k].nfac = One

\* a transition of positive width whose edges are the outer wall of the
\* first shell and the inner wall of the third
C13_Witness ==
  /\ AfterConstIonisation /\ transition = "SMOOTH"
  /\ RGt(consts.transition_width, Zero)
  /\ REq(cells[1].uplim, RionMin(rion, consts.transition_width))
  /\ REq(cells[3].lowlim, RionMax(rion, consts.transition_width))
  /\ cells[1].nfac = Zero /\ cells[3].nfac = One
  /\ RGt(cells[2].nfac, Zero) /\ RLt(cells[2].nfac, One)


(***************************************************************************)
(* The constant radius mode on a grid of ten shells, with the radius at    *)
(* the outer wall of the fifth.                                            *)
(***************************************************************************)
ScenarioShells == 10
ScenarioShell == 5

\* values of the transition width for the grid of ten shells: none, a
\* whole shell
ScenarioWidths == {Zero, <<2, 1>>}

\* values of bondi_pressure_contrast
ContrastVals == {One, <<32, 1>>}

\* values of the analytic profile at the midpoint of the outer ghost cell
\* (high) and one cell further out (max); the pressures follow from the
\* densities
BoundaryVals ==
  {[rho_high |-> <<5, 4>>, rho_max |-> One, u_high |-> <<-1, 1>>,
    u_max |-> <<-1, 2>>],
   [rho_high |-> One, rho_max |-> One, u_high |-> Zero, u_max |-> Zero],
   [rho_high |-> <<3, 1>>, rho_max |-> <<2, 1>>, u_high |-> <<-2, 1>>,
    u_max |-> <<-1, 1>>]}

\* boundary_conditions_initialize for the profile b
BoundaryConsts(b) ==
  [DefaultConsts EXCEPT
     !.bondi_density_high = b.rho_high,
     !.bondi_velocity_high = b.u_high,
     !.bondi_pressure_high = RMul(ISOTHERMAL_C_SQUARED, b.rho_high),
     !.bondi_density_max = b.rho_max,
     !.bondi_velocity_max = b.u_max,
     !.bondi_pressure_max = RMul(ISOTHERMAL_C_SQUARED, b.rho_max)]

\* the state after initialisation with INITIAL_IONISATION_RADIUS at the
\* outer wall of shell ScenarioShell
InitConst ==
  /\ pc = "c_ion"
  /\ step = 0
  /\ \E R \in RMinVals : cells = FirstLoopCells(GridOf(ScenarioShells, R))
  /\ transition \in {"JUMP", "SMOOTH"}
  /\ \E W \in ScenarioWidths, c \in ContrastVals, b \in BoundaryVals :
       consts = [BoundaryConsts(b) EXCEPT
                   !.initial_ionisation_radius = cells[ScenarioShell].uplim,
                   !.transition_width = W,
                   !.bondi_pressure_contrast = c]
  /\ const_bondi_Q = BondiQ(cells, cells[ScenarioShell].uplim, 1, Zero)
  /\ P_Store = [s \in Slots |-> EmptyEntry]
  /\ nbanki = 0 /\ nbank = 0 /\ j = 0
  /\ taurem = Zero /\ cell = 0 /\ rcurrent = Zero /\ lrem = Zero
  /\ dt0 = One /\ dt1 = One
  /\ rion = Zero /\ rion_old = Zero /\ bondi_rfile = <<>>
  /\ hist = HistInit
  /\ par = ParIdle

SpecConst == InitConst /\ [][NextConst]_vars

\* the width that the configured policy uses
EffectiveWidth ==
  IF transition = "SMOOTH" THEN consts.transition_width ELSE Zero

DecayCalls == 12

\* densities and time steps of the decay: ConB * delta > 0
DecayRhoVals == {One, <<3, 2>>, Int2R(2)}
DecayDeltaVals == {Half, One, Int2R(3)}

\* the cell is fully ionised and jmean is 0
InitDecay ==
  /\ pc = "decay"
  /\ step = 0
  /\ \E r \in DecayRhoVals :
       cells = [k \in Cells |->
                  InShell(IF k = 1
                            THEN [IonisedCell EXCEPT
                                    !.rho = r, !.ft0 = One, !.ifrac = One,
                                    !.nfac_MC = Zero, !.jmean = Zero]
                            ELSE NeutralCell,
                          Zero, k)]
  /\ dt1 \in DecayDeltaVals
  /\ dt0 = dt1
  /\ P_Store = [s \in Slots |-> EmptyEntry]
  /\ nbanki = 0 /\ nbank = 0 /\ j = 0
  /\ taurem = Zero /\ cell = 1 /\ rcurrent = Zero /\ lrem = Zero
  /\ rion = Zero /\ rion_old = Zero /\ bondi_rfile = <<>>
  /\ const_bondi_Q = Zero
  /\ transition = "JUMP"
  /\ consts = DefaultConsts
  /\ hist = HistInit
  /\ par = ParIdle

\* one more call of UPDATE_ION with the same delta; no packet has crossed
\* the cell, so jmean is still 0
DecayCall ==
  /\ pc = "decay"
  /\ step < DecayCalls
  /\ \E th \in TanhVals(Arg2Of(cells[1], dt1)) :
       cells' = [cells EXCEPT ![1] =
                   UPDATE_ION(cells[1], dt1,
                              Riccati(cells[1].ft0, IoROf(cells[1]),
                                      RootOf(cells[1]), th))]
  /\ step' = step + 1
  /\ hist' = [hist EXCEPT !.pre = <<cells, P_Store>>]
  /\ UNCHANGED <<pc, P_Store, nbanki, nbank, j, taurem, cell, rcurrent,
                 lrem, dt0, dt1, rion, rion_old, bondi_rfile, const_bondi_Q,
                 transition, consts, par>>

NextDecay == DecayCall

SpecDecay == InitDecay /\ [][NextDecay]_vars

\* UPDATE_ION on a cell whose jmean is 0
Recombine(c, delta) == UPDATE_ION(c, delta, NaN)

\* C15: after k calls of UPDATE_ION with step delta on a cell that started
\* with ft0 = 1, nfac_MC = 0 and jmean = 0, ifrac = 1/(1 + k*ConB*delta);
\* ifrac is positive and smaller than before the call; two calls with delta
\* leave the cell as one call with 2*delta does
C15_RecombinationDecay ==
  pc = "decay" =>
    LET c == cells[1]
        kCd == RMul(RMul(Int2R(step), ConBOf(c)), dt1)
    IN  /\ c.ifrac = RInv(RAdd(One, kCd))
        /\ c.ft0 = c.ifrac /\ c.nfac_MC = RSub(One, c.ifrac)
        /\ RGt(c.ifrac, Zero)
        /\ step > 0 => RLt(c.ifrac, hist.pre[1][1].ifrac)
        /\ Recombine(Recombine(c, dt1), dt1)
             = Recombine(c, RMul(Int2R(2), dt1))

\* several calls have run and the cell is still more than a tenth ionised
C15_Witness ==
  /\ pc = "decay" /\ step >= 3
  /\ cells[1].jmean = Zero
  /\ RGt(cells[1].ifrac, <<1, 10>>) /\ RLt(cells[1].ifrac, Half)


\* a step of the conversion to primitive variables: update_pressure runs
\* for cells[j]
PressureStep == pc = "c_prim" /\ pc' = "c_prim"

\* C16: update_pressure sets the pressure of its cell to
\* ISOTHERMAL_C_SQUARED * rho * (pressure_contrast * (1 - nfac) + nfac),
\* with nfac the neutral fraction of that cell, and changes no other field
\* of that cell, no field of another cell and nothing in the bank
C16_PressureOnly ==
  [][PressureStep =>
       /\ cells'[j].P =
            RMul(RMul(ISOTHERMAL_C_SQUARED, cells[j].rho),
                 RAdd(RMul(consts.bondi_pressure_contrast,
                           RSub(One, cells[j].nfac)),
                      cells[j].nfac))
       /\ cells' = [cells EXCEPT ![j].P = cells'[j].P]
       /\ P_Store' = P_Store]_vars

\* the pressure of the fifth shell has been set after a hydro step, with a
\* contrast above 1 and a shell that is partly ionised: the pressure lies
\* strictly between that of neutral and that of ionised gas
C16_Witness ==
  /\ pc = "c_prim" /\ j = ScenarioShell + 1 /\ step >= 1
  /\ RGt(consts.bondi_pressure_contrast, One)
  /\ RGt(cells[ScenarioShell].nfac, Zero)
  /\ RLt(cells[ScenarioShell].nfac, One)
  /\ cells[ScenarioShell].rho = <<3, 2>>
  /\ RGt(cells[ScenarioShell].P,
         RMul(ISOTHERMAL_C_SQUARED, cells[ScenarioShell].rho))
  /\ RLt(cells[ScenarioShell].P,
         RMul(RMul(ISOTHERMAL_C_SQUARED, cells[ScenarioShell].rho),
              consts.bondi_pressure_contrast))


\* boundary_conditions_gradients has run on the values the cells hold
AfterBoundaryGradients == pc = "c_hydro"

\* the limited slope G of the ghost value g stays between the value a of
\* the last shell and the analytic value m, with a limiter factor in [0,1]
SlopeWithinRange(a, g, m, G) ==
  LET lo == RMin(a, m)
      hi == RMax(a, m)
      plu == RAdd(g, RMul(HALF_CELLSIZE, G))
      mnu == RSub(g, RMul(HALF_CELLSIZE, G))
  IN  /\ RLe(lo, plu) /\ RLe(plu, hi)
      /\ RLe(lo, mnu) /\ RLe(mnu, hi)
      /\ IsFraction(LimiterAlpha(a, g, m))

\* C17 as stated: for density, velocity and pressure, whatever the value of
\* the last shell, of the ghost cell and of the analytic profile one cell
\* further out, the gradient g written to cells[ncell + 1] satisfies
\* min <= ghost value +/- HALF_CELLSIZE * g <= max, and the limiter factor
\* lies in [0,1]
C17_GhostSlopeLimited ==
  AfterBoundaryGradients =>
    LET n == NcellOf(cells) IN
    /\ SlopeWithinRange(cells[n].rho, cells[n + 1].rho,
                        consts.bondi_density_max, cells[n + 1].grad_rho)
    /\ SlopeWithinRange(cells[n].u, cells[n + 1].u,
                        consts.bondi_velocity_max, cells[n + 1].grad_u)
    /\ SlopeWithinRange(cells[n].P, cells[n + 1].P,
                        consts.bondi_pressure_max, cells[n + 1].grad_P)


(***************************************************************************)
(* The bank between two steps of the Monte Carlo mode.                     *)
(***************************************************************************)
\* the packet a bank entry's future fields hold
FutureOf(e) == <<e._futureCell, e._futureTaurem, e._futureDistance>>

\* the future fields of the entry are all 0
FutureCleared(e) == FutureOf(e) = <<0, Zero, Zero>>

\* the step of the rotation
RotationStep == pc = "check" /\ pc' = "rion"

LongSteps == 3

BeginLongStep == BeginStepUpTo(LongSteps)

NextLong ==
  \/ BeginLongStep \/ ResumeLoop \/ ResumeExit \/ CallICT
  \/ ResumeWhile \/ ResumeWhileBeyond \/ ResumeWhileFault \/ ResumeDone
  \/ EmitLoop \/ EmitExit \/ EmitWhile \/ EmitDone
  \/ MeanIntensity \/ UpdateIon \/ OverflowBreak \/ Rotate
  \/ CalcRion \/ LogRadiusMC \/ ThirdLoop

SpecLong == Init /\ [][NextLong]_vars

\* the bank entry that the resume loop is working on, as it was banked
ResumedEntry == hist.prevbanked[j + 1]

\* C19: a packet banked in one step with cell c, optical depth tau and
\* distance d is resumed in the next step from exactly c, tau and d; its
\* first call is ICT, in cell c, over no more than the rest V - d of that
\* cell (all of it when the packet crosses); every later call is PROPAGATE
C19_SaveRestoreRoundTrip ==
  /\ hist.kind # "skipped"
  /\ (pc \in {"ict", "rwhile"} /\ hist.calls = 0) =>
       /\ pc = "ict"
       /\ <<cell, taurem, rcurrent>> = ResumedEntry
  /\ (pc = "rwhile" /\ hist.kind = "resumed" /\ hist.calls = 1) =>
       /\ hist.last[1] = "ICT"
       /\ hist.callcell = ResumedEntry[1]
       /\ RLe(hist.dlen, RSub(CELLSIZE, ResumedEntry[3]))
       /\ hist.last[2] = "cross" =>
            /\ hist.dlen = RSub(CELLSIZE, ResumedEntry[3])
            /\ cell = ResumedEntry[1] + 1
  /\ (pc = "rwhile" /\ hist.kind = "resumed" /\ hist.calls > 1) =>
       hist.last[1] = "PROPAGATE"


(***************************************************************************)
(* The Monte Carlo step with the optical depths sampled as the source      *)
(* samples them, from every value rand() can return.                       *)
(***************************************************************************)
RAND_MAX == 3

\* the values of rand()
RandVals == 0..RAND_MAX

\* -log(u) for u in [0,1]: +infinity at 0, 0 at 1, and between them the
\* first term 2*(1-u)/(1+u) of its series, which is positive and finite
NegLog(u) ==
  IF REq(u, Zero) THEN PInf
  ELSE IF REq(u, One) THEN Zero
  ELSE RDiv(RMul(Int2R(2), RSub(One, u)), RAdd(One, u))

\* header and first statements of the loop over emitted packets:
\* taurem=-log(((double) rand()/RAND_MAX))
EmitRand ==
  /\ pc = "emit"
  /\ j < nphoton
  /\ \E r \in RandVals :
       LET tau == NegLog(RDiv(Int2R(r), Int2R(RAND_MAX))) IN
       /\ taurem' = tau
       /\ hist' = [hist EXCEPT !.tau0 = tau, !.spent = Zero, !.written = 0,
                               !.calls = 0, !.path = Zero, !.callcell = 0,
                               !.last = <<"none", "none">>,
                               !.kind = "emitted"]
  /\ cell' = 1
  /\ lrem' = dt1
  /\ pc' = "ewhile"
  /\ UNCHANGED <<step, cells, P_Store, nbanki, nbank, j, rcurrent, dt0, dt1,
                 rion, rion_old, bondi_rfile, const_bondi_Q, transition, consts, par>>

NextEmit ==
  \/ BeginStep \/ ResumeLoop \/ ResumeExit \/ CallICT
  \/ ResumeWhile \/ ResumeWhileBeyond \/ ResumeWhileFault \/ ResumeDone
  \/ EmitRand \/ EmitExit \/ EmitWhile \/ EmitDone
  \/ MeanIntensity \/ UpdateIon \/ OverflowBreak \/ Rotate
  \/ CalcRion \/ LogRadiusMC \/ ThirdLoop

SpecEmit == Init /\ [][NextEmit]_vars

\* a packet has just been emitted
JustEmitted == pc = "ewhile" /\ hist.kind = "emitted" /\ hist.calls = 0

\* C20: every step starts exactly nphoton packets, each in cell 1, each
\* with a finite and strictly positive taurem = -ln(U) whatever rand()
\* returns in 0..RAND_MAX, and each with the light-travel budget c*dt
C20_EmissionSamples ==
  /\ JustEmitted =>
       /\ cell = 1 /\ j < nphoton
       /\ lrem = dt1
       /\ IsFinite(taurem) /\ RGt(taurem, Zero)
  /\ pc \in {"jmean", "update", "check"} => j = nphoton


(***************************************************************************)
(* UPDATE_ION on a fully neutral cell.                                     *)
(***************************************************************************)
\* the cell as UPDATE_ION found it
CellBefore == hist.pre[1][1]

\* ft0 + jmean*delta of the cell as UPDATE_ION found it
LinearGrowth == RAdd(CellBefore.ft0, RMul(CellBefore.jmean, dt1))

\* the call has returned, and it found nfac_MC == 1
AfterNeutralCall == pc = "ion_done" /\ REq(CellBefore.nfac_MC, One)

\* C21: on a cell with nfac_MC == 1, UPDATE_ION sets ifrac to
\* ft0 + jmean*delta; when that reaches or passes 1 the neutral fraction is
\* floored (ifrac = 1 - floor); so nfac_MC is at least the floor after the
\* call, for every ft0, jmean and delta
C21_NeutralBranchFloored ==
  AfterNeutralCall =>
    /\ RLt(LinearGrowth, One) => cells[1].ifrac = LinearGrowth
    /\ RGe(LinearGrowth, One) => cells[1].ifrac = RSub(One, NfacFloor)
    /\ RGe(cells[1].nfac_MC, NfacFloor)

(***************************************************************************)
(* The bank-write index within one step.                                   *)
(***************************************************************************)
\* between the reset of nbank and the rotation (or the halt)
InStep == pc \in {"resume", "ict", "rwhile", "emit", "ewhile", "jmean",
                  "update", "check", "halted", "crashed"}

\* the bank as the step found it
BankBefore == hist.pre[2]

\* slot s holds the packet that was banked as number s + 1 of this step,
\* and its current fields are as the step found them
HoldsPacket(s) ==
  P_Store[s] = [BankBefore[s] EXCEPT !._futureCell = hist.banked[s + 1][1],
                                     !._futureTaurem = hist.banked[s + 1][2],
                                     !._futureDistance = hist.banked[s + 1][3]]

\* the index counts the packets that ran out of budget in this step
IndexCountsBanked == nbank = Len(hist.banked)

\* C22 (as stated): within one step the bank-write index starts at 0 and
\* grows by exactly one per banked packet; every packet banked in the step
\* is written to a slot of its own, the written slots are exactly
\* 0..nbank-1, and no entry is overwritten by a later packet of the step.
C22_EveryBankedPacketWritten ==
  InStep =>
    /\ IndexCountsBanked
    /\ \A i \in 1..Len(hist.banked) : (i - 1) \in Slots /\ HoldsPacket(i - 1)
    /\ \A s \in Slots : s >= nbank => P_Store[s] = BankBefore[s]

\* C22 (amended): within one step the bank-write index starts at 0 and
\* grows by exactly one per packet that runs out of budget; packet number
\* s + 1 of the step, for s below the capacity sizebank, is written to slot
\* s and stays there until the rotation, and the slots from the index on
\* are not touched; in a step that banks at most sizebank packets every
\* banked packet is written, so that the written slots are 0..nbank-1.
C22_BankedPacketsWrittenUpToCapacity ==
  InStep =>
    /\ IndexCountsBanked
    /\ \A s \in Slots : s < nbank /\ s < sizebank => HoldsPacket(s)
    /\ \A s \in Slots : s >= nbank => P_Store[s] = BankBefore[s]
    /\ nbank <= sizebank => hist.unstored = 0

\* two packets were banked in a step that found packets in the bank
C22_Witness ==
  /\ pc = "check" /\ nbank = 2 /\ nbanki > 0
  /\ FutureOf(P_Store[0]) = hist.banked[1]
  /\ FutureOf(P_Store[1]) = hist.banked[2]

(***************************************************************************)
(* The omp parallel loops.  Each iteration first reads its operands and    *)
(* computes, then stores; the iterations of a loop run in any order and    *)
(* interleave between the two.  The loops are run on their own, on cells   *)
(* and banks as the steps leave them.                                      *)
(***************************************************************************)
\* ionisation_initialize and the self-consistent first loop (weights), the
\* reset of the accumulators, the mean intensity, the third loop of
\* do_ionisation (nfac), the UPDATE_ION pass and the bank rotation
ParLoops == {"weights", "reset", "jmean", "nfac", "update", "rotate"}

\* the indices the loop runs over
ParIndices(loop) == IF loop = "rotate" THEN {s \in Slots : s < nbank}
                    ELSE Active

\* an iteration of the mean intensity loop that takes the path length of
\* the cell below and adds the intensity the cell below holds
ParEntriesNeighbour(loop, cs, ps, i) ==
  IF loop = "jmean"
    THEN {[cs[i] EXCEPT !.jmean = RAdd(MeanIntensityOf(cs[i]),
                                       cs[i - 1].jmean)]}
    ELSE {cs[i]}

\* the values iteration i of the loop may store in entry i, computed from
\* the arrays as the iteration finds them
ParEntries(loop, cs, ps, i) ==
  CASE loop = "weights" -> {FirstLoopCells(cs)[i]}
    [] loop = "reset" -> {ResetOf(cs[i])}
    [] loop = "jmean" -> {JmeanOf(cs[i])}
    [] loop = "nfac" -> {ThirdLoopCells(cs, rion)[i]}
    [] loop = "update" -> {u[i] : u \in UpdatedCells(cs, dt1, i)}
    [] loop = "rotate" -> {ShiftedBank(ps, nbank)[i]}

\* the arrays after iteration i has stored v
ParStored(loop, cs, ps, i, v) ==
  IF loop = "rotate" THEN <<cs, [ps EXCEPT ![i] = v]>>
  ELSE <<[cs EXCEPT ![i] = v], ps>>

Lowest(S) == CHOOSE i \in S : \A k \in S : i <= k

\* the arrays the loop can leave when its iterations run one after the
\* other, in the order of the index, from those in todo on
RECURSIVE Sequential(_, _, _, _)
Sequential(loop, cs, ps, todo) ==
  IF todo = {} THEN {<<cs, ps>>}
  ELSE LET i == Lowest(todo) IN
       UNION {LET a == ParStored(loop, cs, ps, i, v)
              IN  Sequential(loop, a[1], a[2], todo \ {i}) :
                v \in ParEntries(loop, cs, ps, i)}

\* an iteration reads its operands and computes
ParRead ==
  /\ pc = "par_run"
  /\ \E i \in par.todo :
       \E v \in ParEntries(par.loop, cells, P_Store, i) :
         par' = [par EXCEPT !.todo = @ \ {i},
                            !.val = [k \in DOMAIN par.val \cup {i} |->
                                       IF k = i THEN v ELSE par.val[k]]]
  /\ UNCHANGED <<pc, step, cells, P_Store, nbanki, nbank, j, taurem, cell,
                 rcurrent, lrem, dt0, dt1, rion, rion_old, bondi_rfile,
                 const_bondi_Q, transition, hist, consts>>

\* an iteration stores what it computed
ParWrite ==
  /\ pc = "par_run"
  /\ \E i \in DOMAIN par.val :
       /\ LET a == ParStored(par.loop, cells, P_Store, i, par.val[i])
          IN  cells' = a[1] /\ P_Store' = a[2]
       /\ par' = [par EXCEPT !.val = [k \in DOMAIN par.val \ {i} |->
                                        par.val[k]]]
  /\ UNCHANGED <<pc, step, nbanki, nbank, j, taurem, cell, rcurrent, lrem,
                 dt0, dt1, rion, rion_old, bondi_rfile, const_bondi_Q,
                 transition, hist, consts>>

\* the end of the parallel region
ParJoin ==
  /\ pc = "par_run"
  /\ par.todo = {} /\ DOMAIN par.val = {}
  /\ pc' = "par_done"
  /\ UNCHANGED <<step, cells, P_Store, nbanki, nbank, j, taurem, cell,
                 rcurrent, lrem, dt0, dt1, rion, rion_old, bondi_rfile,
                 const_bondi_Q, transition, hist, consts, par>>

\* cells as a step leaves them: crossed by packets and partly ionised, neutral
\* with a packet absorbed in it, ionised and not reached
ParCellVals ==
  <<[NeutralCell EXCEPT !.nfac_MC = Half, !.ifrac = Half, !.ft0 = Half,
                        !.length = CELLSIZE, !.jmean = Int2R(3),
                        !.last_jmean = One],
    [NeutralCell EXCEPT !.rho = <<3, 2>>, !.length = One, !.jmean = Half],
    [IonisedCell EXCEPT !.nfac = One]>>

\* the radii of the third loop: inside the first shell, in a shell, beyond
ParRadii == {Zero, <<3, 1>>, <<11, 1>>}

\* a bank after the packet loops of a step that banked n packets, and found
\* the packets the step before had banked
ParBank(n) ==
  [s \in Slots |->
     IF s < n
       THEN [EmptyEntry EXCEPT !._futureCell = (s % ncell) + 1,
                               !._futureTaurem = Norm(s + 1, 2),
                               !._futureDistance = One,
                               !._currentCell = 1,
                               !._currentTaurem = One,
                               !._currentDistance = Half]
       ELSE EmptyEntry]

InitPar ==
  /\ pc = "par_run"
  /\ step = 0
  /\ \E shift \in 0..2, rmin0 \in RMinVals :
       cells = [k \in Cells |->
                  InShell(IF k \in Active
                            THEN ParCellVals[((k + shift) % 3) + 1]
                            ELSE NeutralCell, rmin0, k)]
  /\ nbank \in 0..sizebank
  /\ P_Store = ParBank(nbank)
  /\ nbanki = 0 /\ j = 0
  /\ taurem = Zero /\ cell = 0 /\ rcurrent = Zero /\ lrem = Zero
  /\ dt1 \in LremVals /\ dt0 = dt1
  /\ rion \in ParRadii /\ rion_old = Zero /\ bondi_rfile = <<>>
  /\ const_bondi_Q = Zero
  /\ transition = "JUMP"
  /\ consts = DefaultConsts
  /\ hist = [HistInit EXCEPT !.pre = <<cells, P_Store>>]
  /\ \E loop \in ParLoops :
       par = [loop |-> loop, todo |-> ParIndices(loop), val |-> <<>>]

NextPar == ParRead \/ ParWrite \/ ParJoin

SpecPar == InitPar /\ [][NextPar]_vars

\* the arrays as the loop found them
ArraysBefore == hist.pre

\* the iterations that have not stored yet
NotStored == par.todo \cup DOMAIN par.val

\* C23: in every omp parallel loop iteration i writes only entry i and
\* reads nothing another iteration writes: while the loop runs, the entries
\* of the iterations that have not stored are as the loop found them, and
\* when it ends, whatever the order and the interleaving, the arrays are
\* those a run of the iterations one after the other leaves.
C23_ParallelLoopsIndependent ==
  /\ pc = "par_run" =>
       \A i \in NotStored :
         IF par.loop = "rotate" THEN P_Store[i] = ArraysBefore[2][i]
         ELSE cells[i] = ArraysBefore[1][i]
  /\ pc = "par_done" =>
       <<cells, P_Store>> \in Sequential(par.loop, ArraysBefore[1],
                                         ArraysBefore[2],
                                         ParIndices(par.loop))

\* a loop has ended that changed more than one entry
C23_Witness ==
  /\ pc = "par_done"
  /\ \/ Cardinality({k \in Active : cells[k] # ArraysBefore[1][k]}) > 1
     \/ Cardinality({s \in Slots : P_Store[s] # ArraysBefore[2][s]}) > 1

(* The budget of ionisation_initialize, handed back to the solver. *)
\* INITIAL_IONISATION_RADIUS
RequestedRadius == consts.initial_ionisation_radius

\* the second loop has run on the densities ionisation_initialize saw
FirstSolve == pc = "sc_log" /\ step = 0

\* C24: the budget const_bondi_Q that ionisation_initialize computes for
\* INITIAL_IONISATION_RADIUS R makes the self-consistent solver, on the
\* same densities, return rion == R, for every R from the inner wall of
\* shell 1 to the outer wall of shell ncell.
C24_BudgetRoundTrip ==
  /\ FirstSolve
  /\ RLe(cells[1].lowlim, RequestedRadius)
  /\ RLe(RequestedRadius, cells[ncell].uplim)
  => REq(rion, RequestedRadius)

(* What the bank entries written in a step hold. *)
\* the slots written so far in this step
WrittenSlots == {s \in Slots : s < nbank}

\* the entry describes a packet alive and inside a shell of the grid
AliveInCell(e) ==
  /\ RGt(e._futureTaurem, Zero)
  /\ e._futureCell \in Active
  /\ RGt(e._futureDistance, Zero)
  /\ RLe(e._futureDistance, CELLSIZE)

\* C25: every entry written to the bank, by PROPAGATE or by ICT, has a
\* stored optical depth above 0, a stored cell index in 1..ncell and a
\* stored in-cell distance d with 0 < d <= V, the thickness of the cell.
C25_BankedPacketAliveInCell ==
  InStep => \A s \in WrittenSlots : AliveInCell(P_Store[s])

(* The light-travel budget of a packet. *)
\* the budget the packet loop has given the packet
PacketBudget == IF hist.kind = "resumed" THEN dt0 ELSE dt1

\* a packet is being propagated or has just been
InPacketLoop == pc \in {"ict", "rwhile", "ewhile"} /\ hist.kind # "none"

Touched(e) == FutureOf(e) # <<0, Zero, Zero>> \/ CurrentOf(e) # <<0, Zero, Zero>>

\* C27: every write of BANK goes to an index in 0..sizebank-1, whatever
\* the number of packets banked in the step, the step that exceeds the
\* capacity included.
C27_BankWritesInsideBank ==
  \A s \in Slots : Touched(P_Store[s]) => s <= sizebank - 1

(* The budget a packet starts with. *)
\* a packet has been taken from the bank and no call has been made for it
JustResumed == pc \in {"ict", "rwhile"} /\ hist.kind = "resumed"
               /\ hist.calls = 0

\* C28: in one step every packet, resumed from the bank or newly emitted,
\* starts with the same light-travel budget lrem = c * dt of the step, the
\* one the emitted packets get.
C28_SameBudgetForEveryPacket ==
  JustResumed \/ JustEmitted => REq(lrem, dt1)

(* The radius the Monte Carlo step reports. *)
\* the shells with nfac_MC >= 0.5
NeutralShells == {k \in Active : RGe(cells[k].nfac_MC, Half)}

\* the scan of the cells has run
AfterScan == pc = "log"

\* the neutral fractions UPDATE_ION leaves: 0, the floor, 0.5 and 1
ScanNfacVals == {Zero, NfacFloor, Half, One}

\* the state before the scan, at the end of a step that left the cells,
\* the upper ghost cell included, with these neutral fractions
InitScan ==
  /\ pc = "rion"
  /\ step = 0
  /\ \E rmin0 \in RMinVals, f \in [1..(ncell + 1) -> ScanNfacVals] :
       cells = [k \in Cells |->
                  InShell(IF k = 0 THEN NeutralCell
                          ELSE [NeutralCell EXCEPT !.nfac_MC = f[k],
                                                   !.ifrac = RSub(One, f[k]),
                                                   !.ft0 = RSub(One, f[k])],
                          rmin0, k)]
  /\ P_Store = [s \in Slots |-> EmptyEntry]
  /\ nbanki = 0 /\ nbank = 0 /\ j = 0
  /\ taurem = Zero /\ cell = 0 /\ rcurrent = Zero /\ lrem = Zero
  /\ dt0 = One /\ dt1 = One
  /\ rion = Zero /\ rion_old = Zero /\ bondi_rfile = <<>>
  /\ const_bondi_Q = Zero
  /\ transition = "JUMP"
  /\ consts = DefaultConsts
  /\ hist = HistInit
  /\ par = ParIdle

NextScan == CalcRion

SpecScan == InitScan /\ [][NextScan]_vars

\* C29: the radius reported at the end of a Monte Carlo step is the lower
\* boundary of the innermost shell with nfac_MC >= 0.5, and the outer grid
\* radius rmax, the upper limit of cell ncell+1, when no shell of the grid
\* has nfac_MC >= 0.5.
C29_RadiusOfInnermostNeutralShell ==
  AfterScan =>
    IF NeutralShells # {}
      THEN REq(rion, cells[Lowest(NeutralShells)].lowlim)
      ELSE REq(rion, cells[ncell + 1].uplim)

(* The number of calls made for one packet. *)
\* the latest call moved the packet to the next cell, absorbed it or used
\* up its budget
CallMadeProgress ==
  \/ hist.last[2] = "cross" /\ cell = hist.callcell + 1
  \/ hist.last[2] = "absorb" /\ REq(taurem, Zero)
  \/ hist.last[2] = "bank" /\ REq(lrem, Zero)

\* C30: for each packet, emitted or resumed, the loop of ICT and PROPAGATE
\* calls ends after at most ncell calls: every call advances the packet by
\* one cell, sets taurem to 0 or sets lrem to 0, whatever the cells hold.
C30_AtMostNcellCalls ==
  /\ hist.calls <= ncell
  /\ pc \in {"rwhile", "ewhile"} /\ hist.calls > 0 => CallMadeProgress

=============================================================================
